---------------------------- MODULE Spec2Model ----------------------------
(***************************************************************************)
(* A model of the composite value types of edgedb-python (Tuple, Array,    *)
(* Object, SparseObject, Set, RecordDesc) as they are implemented in the   *)
(* C sources under src/edgedb and src/gel.                                 *)
(*                                                                         *)
(* Host values (the CPython objects stored in slots) are records           *)
(* [t |-> type, v |-> payload]; containers live in `heap`, descriptors in  *)
(* `descs`, the per-kind free lists in `pools`.  Hashes are Py_uhash_t     *)
(* words of a 64-bit build, kept as four 16-bit limbs (least significant   *)
(* first) so that every wrap-around of the C arithmetic is reproduced.     *)
(***************************************************************************)
EXTENDS Integers, Sequences, FiniteSets, TLC

VARIABLES
    rev,        \* which package is loaded: "edgedb" or "gel"
    base_hash,  \* the static base_hash of each hashed type
    descs,      \* the EdgeRecordDesc / EdgeInputShape objects built so far
    heap,       \* the containers allocated so far, by address 1..Len(heap)
    pools,      \* _FL[] of each kind: kind -> bucket (size) -> chain of addresses
    ret         \* what the last call returned

vars == <<rev, base_hash, descs, heap, pools, ret>>

(***************************************************************************)
(* Py_uhash_t arithmetic modulo 2^64, on four 16-bit limbs.                *)
(***************************************************************************)
LimbBase == 256 * 256

WordOfNat(n) == <<n % LimbBase, (n \div LimbBase) % LimbBase, 0, 0>>

\* (Py_uhash_t)-1, which is also Py_hash_t -1: the error / "not computed" value.
MinusOne == <<65535, 65535, 65535, 65535>>

\* (Py_uhash_t)-2
MinusTwo == <<65534, 65535, 65535, 65535>>

WAdd(a, b) ==
    LET s0 == a[1] + b[1]
        s1 == a[2] + b[2] + (s0 \div LimbBase)
        s2 == a[3] + b[3] + (s1 \div LimbBase)
        s3 == a[4] + b[4] + (s2 \div LimbBase)
    IN  <<s0 % LimbBase, s1 % LimbBase, s2 % LimbBase, s3 % LimbBase>>

\* The 32-bit product of two limbs as <<low limb, high limb>>, computed
\* through 24-bit partial products.
Mul16(a, b) ==
    LET p0  == a * (b % 256)
        p1  == a * (b \div 256)
        mid == (p1 % 256) * 256 + p0
    IN  <<mid % LimbBase, (p1 \div 256) + (mid \div LimbBase)>>

WMul(a, b) ==
    LET P(i, j) == Mul16(a[i], b[j])
        c0 == P(1,1)[1]
        c1 == P(1,1)[2] + P(1,2)[1] + P(2,1)[1] + (c0 \div LimbBase)
        c2 == P(1,2)[2] + P(2,1)[2] + P(1,3)[1] + P(2,2)[1] + P(3,1)[1]
              + (c1 \div LimbBase)
        c3 == P(1,3)[2] + P(2,2)[2] + P(3,1)[2]
              + P(1,4)[1] + P(2,3)[1] + P(3,2)[1] + P(4,1)[1]
              + (c2 \div LimbBase)
    IN  <<c0 % LimbBase, c1 % LimbBase, c2 % LimbBase, c3 % LimbBase>>

RECURSIVE Xor16(_, _)
Xor16(a, b) ==
    IF a = 0 THEN b
    ELSE IF b = 0 THEN a
    ELSE ((a + b) % 2) + 2 * Xor16(a \div 2, b \div 2)

WXor(a, b) ==
    <<Xor16(a[1], b[1]), Xor16(a[2], b[2]), Xor16(a[3], b[3]), Xor16(a[4], b[4])>>

\* hash.c:33  ((x << 31) | (x >> 33)): rotate left by 32, then right by 1.
PyHASH_XXROTATE(x) ==
    LET r == <<x[3], x[4], x[1], x[2]>>
        Sh(lo, hi) == (lo \div 2) + (hi % 2) * 32768
    IN  <<Sh(r[1], r[2]), Sh(r[2], r[3]), Sh(r[3], r[4]), Sh(r[4], r[1])>>

\* hash.c:30  11400714785074694791 = 0x9E3779B185EBCA87
PyHASH_XXPRIME_1 == <<51847, 34283, 31153, 40503>>
\* hash.c:31  14029467366897019727 = 0xC2B2AE3D27D4EB4F
PyHASH_XXPRIME_2 == <<60239, 10196, 44605, 49842>>
\* hash.c:32  2870177450012600261 = 0x27D4EB2F165667C5
PyHASH_XXPRIME_5 == <<26565, 5718, 60207, 10196>>
\* hash.c:61  3527539UL = 0x35D373
XXLenMangle == <<54131, 53, 0, 0>>
\* hash.c:64  1546275796 = 0x5C2A4BD4
XXMinusOneRemap == <<19412, 23594, 0, 0>>
\* hash.c:131  _PyHASH_MULTIPLIER 1000003 = 0xF4243
PyHASH_MULTIPLIER == <<16963, 15, 0, 0>>
\* hash.c:130  0x345678
BaseSeed == <<22136, 52, 0, 0>>
\* hash.c:134  82520 + 4 = 0x1425C
BaseMultStep == <<16988, 1, 0, 0>>
\* hash.c:136  97531 = 0x17CFB
BaseAddend == <<31995, 1, 0, 0>>


(***************************************************************************)
(* Host values.  The core only asks the host runtime for a value's hash,   *)
(* its equality and its ordering; the values below are the Python objects  *)
(* the model stores in slots: small ints, a float equal to an int, a list  *)
(* (unhashable, ordered only against lists), an object whose comparison    *)
(* raises, and None.  Two equal records are the same Python object.        *)
(***************************************************************************)
PyInt(n)    == [t |-> "int", v |-> n]
PyFloat(n)  == [t |-> "float", v |-> n]
PyList(n)   == [t |-> "list", v |-> n]
PyRaiser(n) == [t |-> "raiser", v |-> n]
Py_None     == [t |-> "none", v |-> 0]
\* An object whose __hash__ returns the Py_hash_t with the bits w.
PyHashed(w) == [t |-> "hashed", v |-> w]

IsNumber(x) == x.t \in {"int", "float"}

\* PyObject_Hash: (Py_uhash_t)-1 when the value is unhashable.
PyObject_Hash(x) ==
    CASE x.t \in {"int", "float", "raiser"} -> WordOfNat(x.v)
      [] x.t = "hashed" -> x.v
      [] x.t = "none" -> WordOfNat(64206)
      [] OTHER -> MinusOne

\* PyObject_RichCompare(a, b, op): "True", "False", or "NULL" when the
\* comparison raises.
PyObject_RichCompare(a, b, op) ==
    LET B(c) == IF c THEN "True" ELSE "False"
        Ord(x, y) ==
            CASE op = "EQ" -> B(x = y)
              [] op = "NE" -> B(x # y)
              [] op = "LT" -> B(x < y)
              [] op = "LE" -> B(x <= y)
              [] op = "GT" -> B(x > y)
              [] op = "GE" -> B(x >= y)
    IN  CASE a.t = "raiser" \/ b.t = "raiser" -> "NULL"
          [] IsNumber(a) /\ IsNumber(b) -> Ord(a.v, b.v)
          [] a.t = "list" /\ b.t = "list" -> Ord(a.v, b.v)
          [] op = "EQ" -> B(a = b)
          [] op = "NE" -> B(a # b)
          [] OTHER -> "NULL"

\* PyObject_RichCompareBool(a, b, op): 1, 0, or -1 on error; identical
\* objects are equal (and not unequal) without being compared.
PyObject_RichCompareBool(a, b, op) ==
    IF a = b /\ op = "EQ" THEN 1
    ELSE IF a = b /\ op = "NE" THEN 0
    ELSE LET r == PyObject_RichCompare(a, b, op)
         IN  CASE r = "True" -> 1 [] r = "False" -> 0 [] OTHER -> -1

(***************************************************************************)
(* hash.c                                                                  *)
(***************************************************************************)
\* The number of PyObject_Hash calls _EdgeGeneric_Hash makes on els: it
\* stops at the first element whose hash fails.
RECURSIVE HashLanes(_)
HashLanes(els) ==
    IF els = <<>> THEN 0
    ELSE IF PyObject_Hash(Head(els)) = MinusOne THEN 1
    ELSE 1 + HashLanes(Tail(els))

\* hash.c:50-58, the loop from element i on, with accumulator acc.
RECURSIVE XXLoop(_, _, _)
XXLoop(els, i, acc) ==
    IF i > Len(els) THEN acc
    ELSE LET lane == PyObject_Hash(els[i])
         IN  IF lane = MinusOne THEN MinusOne
             ELSE XXLoop(els, i + 1,
                    WMul(PyHASH_XXROTATE(WAdd(acc, WMul(lane, PyHASH_XXPRIME_2))),
                         PyHASH_XXPRIME_1))

HashFails(els) == \E i \in 1..Len(els) : PyObject_Hash(els[i]) = MinusOne

\* The tuple hash without the test of hash.c:63-65: the variant C21 rules
\* out, whose result can be the error value.
EdgeGeneric_Hash_NoRemap(els) ==
    IF HashFails(els) THEN MinusOne
    ELSE WAdd(XXLoop(els, 1, PyHASH_XXPRIME_5),
              WXor(WordOfNat(Len(els)), WXor(PyHASH_XXPRIME_5, XXLenMangle)))

EdgeGeneric_Hash(els) ==
    IF HashFails(els) THEN MinusOne
    ELSE LET acc == WAdd(XXLoop(els, 1, PyHASH_XXPRIME_5),
                         WXor(WordOfNat(Len(els)),
                              WXor(PyHASH_XXPRIME_5, XXLenMangle)))
         IN  IF acc = MinusOne THEN XXMinusOneRemap ELSE acc

EdgeGeneric_HashWithBase(base, els) ==
    LET els_hash == EdgeGeneric_Hash(els)
    IN  IF els_hash = MinusOne THEN MinusOne
        ELSE LET x1  == WMul(WXor(BaseSeed, base), PyHASH_MULTIPLIER)
                 x2  == WMul(WXor(x1, els_hash), WAdd(PyHASH_MULTIPLIER, BaseMultStep))
                 res == WAdd(x2, BaseAddend)
             IN  IF res = MinusOne THEN MinusTwo ELSE res


\* <Type>_InitType: base_hash = _EdgeGeneric_HashString("edgedb.<Type>"), the
\* str hash of the type's name, which the interpreter seeds anew in every
\* process and which is never -1 once InitType has returned the type.
HashedKinds == {"Object", "Array", "SparseObject", "Set"}

BaseHashSmall ==
    [kind \in HashedKinds |->
        CASE kind = "Object" -> <<12345, 0, 0, 0>>
          [] kind = "Array" -> <<777, 1, 0, 0>>
          [] kind = "SparseObject" -> <<4242, 2, 0, 0>>
          [] kind = "Set" -> <<31, 3, 0, 0>>]

BaseHashLarge ==
    [kind \in HashedKinds |->
        CASE kind = "Object" -> <<65535, 65535, 65535, 32767>>
          [] kind = "Array" -> <<65534, 65535, 65535, 65535>>
          [] kind = "SparseObject" -> <<0, 0, 0, 32768>>
          [] kind = "Set" -> <<51966, 47806, 57005, 48879>>]

BaseHashChoices == {BaseHashSmall, BaseHashLarge}

(***************************************************************************)
(* comp.c                                                                  *)
(***************************************************************************)
\* comp.c:39-51: the first index (1-based) at which the elements differ,
\* Len+1 of the shorter side when none does, 0 when an equality test fails.
RECURSIVE FirstDiff(_, _, _)
FirstDiff(left, right, i) ==
    IF i > Len(left) \/ i > Len(right) THEN i
    ELSE LET r == PyObject_RichCompareBool(left[i], right[i], "EQ")
         IN  IF r < 0 THEN 0
             ELSE IF r = 0 THEN i
             ELSE FirstDiff(left, right, i + 1)

\* A comparison of the slots as pointers: the variant that C5 rules out,
\* since equal elements need not be the same object.
EdgeGeneric_RichCompareValues_Identity(left, right, op) ==
    CASE op = "EQ" -> IF left = right THEN "True" ELSE "False"
      [] op = "NE" -> IF left # right THEN "True" ELSE "False"
      [] OTHER -> "NULL"

\* A comparison that walks the elements before it looks at the lengths: the
\* variant the short cut of C20 rules out.
EdgeGeneric_RichCompareValues_NoShortCut(left, right, op) ==
    LET B(c) == IF c THEN "True" ELSE "False"
        ll == Len(left)
        rl == Len(right)
        i == FirstDiff(left, right, 1)
    IN  IF i = 0 THEN "NULL"
        ELSE IF i > ll \/ i > rl
        THEN CASE op = "EQ" -> B(ll = rl)
               [] op = "NE" -> B(ll # rl)
               [] op = "LT" -> B(ll < rl)
               [] op = "GT" -> B(ll > rl)
               [] op = "LE" -> B(ll <= rl)
               [] op = "GE" -> B(ll >= rl)
        ELSE IF op = "EQ" THEN "False"
        ELSE IF op = "NE" THEN "True"
        ELSE PyObject_RichCompare(left[i], right[i], op)

EdgeGeneric_RichCompareValues(left, right, op) ==
    LET B(c) == IF c THEN "True" ELSE "False"
        ll == Len(left)
        rl == Len(right)
    IN  IF ll # rl /\ op \in {"EQ", "NE"}
        THEN B(op = "NE")
        ELSE LET i == FirstDiff(left, right, 1)
             IN  IF i = 0 THEN "NULL"
                 ELSE IF i > ll \/ i > rl
                 THEN CASE op = "EQ" -> B(ll = rl)
                        [] op = "NE" -> B(ll # rl)
                        [] op = "LT" -> B(ll < rl)
                        [] op = "GT" -> B(ll > rl)
                        [] op = "LE" -> B(ll <= rl)
                        [] op = "GE" -> B(ll >= rl)
                 ELSE IF op = "EQ" THEN "False"
                 ELSE IF op = "NE" THEN "True"
                 ELSE PyObject_RichCompare(left[i], right[i], op)

(***************************************************************************)
(* record_desc.c (both revisions) and input_shape.c                        *)
(***************************************************************************)
\* datatypes.h:28  (0x4000 - 1)
EDGE_MAX_TUPLE_SIZE == 16383

EDGE_POINTER_IS_IMPLICIT == 1
EDGE_POINTER_IS_LINKPROP == 2
EDGE_POINTER_IS_LINK == 4

\* flags & bit, for a bit that is a power of two
HasBit(flags, bit) == (flags \div bit) % 2 = 1

\* An optional argument: NULL, or a tuple.
ArgNull == [some |-> FALSE, seq |-> <<>>]
ArgTuple(s) == [some |-> TRUE, seq |-> s]

\* A name that is not a str object (PyUnicode_CheckExact fails on it).
NonStrName == "<not a str>"
PyUnicode_CheckExact(key) == key # NonStrName

\* A cast that takes every code and maps the unknown ones to UNKNOWN: the
\* variant C18 rules out.
CastCardinality_AnyCode(card_long) ==
    CASE card_long = 110 -> "NO_RESULT"
      [] card_long = 111 -> "AT_MOST_ONE"
      [] card_long = 65 -> "ONE"
      [] card_long = 109 -> "MANY"
      [] card_long = 77 -> "AT_LEAST_ONE"
      [] OTHER -> "UNKNOWN"

\* gel/datatypes/record_desc.c:320-331: the cardinality enum of a wire code,
\* "invalid" for an unrecognized code.
CastCardinality(card_long) ==
    CASE card_long = 110 -> "NO_RESULT"
      [] card_long = 111 -> "AT_MOST_ONE"
      [] card_long = 65 -> "ONE"
      [] card_long = 109 -> "MANY"
      [] card_long = 77 -> "AT_LEAST_ONE"
      [] OTHER -> "invalid"

EmptyIndex == [k \in {} |-> 0]

\* PyDict_SetItem(index, key, num)
DictSet(index, key, num) ==
    [k \in (DOMAIN index) \cup {key} |-> IF k = key THEN num ELSE index[k]]

\* A descriptor: names, index, the per-field flags (posbits / descs[].flags)
\* and cardinalities, idpos and size are the struct's fields; given is the
\* flags argument as the constructor received it, which no code reads.
NoDesc == [type |-> "none", names |-> <<>>, index |-> EmptyIndex, flags |-> <<>>,
           cards |-> <<>>, idpos |-> -1, size |-> 0, given |-> ArgNull]

\* The flag checks of one loop iteration: the edgedb revision stores a
\* uint8_t and refuses -1 and anything above 128; the gel revision stores
\* the value as given.
FlagError(rv, flag_long) ==
    IF rv = "edgedb"
    THEN IF flag_long = -1 THEN "SystemError"
         ELSE IF flag_long < 0 \/ flag_long > 128 THEN "OverflowError"
         ELSE "none"
    ELSE "none"

\* The loop of EdgeRecordDesc_New from position i (0-based) on; st carries
\* idpos, index and the per-field flags and cardinalities filled so far.
RECURSIVE RecordDescLoop(_, _, _, _, _, _)
RecordDescLoop(rv, names, flags, cards, i, st) ==
    IF i >= Len(names) THEN [err |-> "none", st |-> st]
    ELSE
    LET key == names[i + 1]
        isId == key = "id"
        idpos1 == IF flags.some /\ isId THEN i ELSE st.idpos
        idpos2 == IF rv = "gel" /\ cards.some /\ isId THEN i ELSE idpos1
        ferr == IF flags.some THEN FlagError(rv, flags.seq[i + 1]) ELSE "none"
        card == IF rv = "gel" /\ cards.some
                THEN CastCardinality(cards.seq[i + 1]) ELSE "UNKNOWN"
    IN  IF ~PyUnicode_CheckExact(key) THEN [err |-> "ValueError", st |-> st]
        ELSE IF ferr # "none" THEN [err |-> ferr, st |-> st]
        ELSE IF card = "invalid" THEN [err |-> "OverflowError", st |-> st]
        ELSE RecordDescLoop(rv, names, flags, cards, i + 1,
                [idpos |-> idpos2,
                 index |-> DictSet(st.index, key, i),
                 flags |-> Append(st.flags,
                                  IF flags.some THEN flags.seq[i + 1] ELSE 0),
                 cards |-> Append(st.cards, card)])

\* EdgeRecordDesc_New(names, flags[, cards]): [err, d].  The edgedb revision
\* takes no cardinalities.
EdgeRecordDesc_New(rv, names, flags, cards) ==
    LET Fail(e) == [err |-> e, d |-> NoDesc]
        size == Len(names)
    IN  IF size > EDGE_MAX_TUPLE_SIZE THEN Fail("ValueError")
        ELSE IF flags.some /\ Len(flags.seq) # size THEN Fail("TypeError")
        ELSE IF rv = "gel" /\ cards.some /\ Len(cards.seq) # size
        THEN Fail("TypeError")
        ELSE LET r == RecordDescLoop(rv, names, flags, cards, 0,
                        [idpos |-> -1, index |-> EmptyIndex,
                         flags |-> <<>>, cards |-> <<>>])
             IN  IF r.err # "none" THEN Fail(r.err)
                 ELSE [err |-> "none",
                       d |-> [type |-> "RecordDesc", names |-> names,
                              index |-> r.st.index, flags |-> r.st.flags,
                              cards |-> r.st.cards, idpos |-> r.st.idpos,
                              size |-> size, given |-> flags]]

\* A lookup that tests the LINK bit before the LINKPROP bit: the variant
\* the precedence of C4 rules out.
EdgeRecordDesc_Lookup_LinkFirst(d, key) ==
    IF key \notin DOMAIN d.index THEN [res |-> "L_NOT_FOUND", pos |-> -1]
    ELSE LET res_long == d.index[key]
             bits == d.flags[res_long + 1]
         IN  [res |-> IF HasBit(bits, EDGE_POINTER_IS_LINK) THEN "L_LINK"
                      ELSE IF HasBit(bits, EDGE_POINTER_IS_LINKPROP) THEN "L_LINKPROP"
                      ELSE "L_PROPERTY",
              pos |-> res_long]

\* EdgeRecordDesc_Lookup(d, key): [res, pos]; pos is meaningful only when
\* res is not L_NOT_FOUND.
EdgeRecordDesc_Lookup(d, key) ==
    IF key \notin DOMAIN d.index THEN [res |-> "L_NOT_FOUND", pos |-> -1]
    ELSE LET res_long == d.index[key]
             bits == d.flags[res_long + 1]
         IN  [res |-> IF HasBit(bits, EDGE_POINTER_IS_LINKPROP) THEN "L_LINKPROP"
                      ELSE IF HasBit(bits, EDGE_POINTER_IS_LINK) THEN "L_LINK"
                      ELSE "L_PROPERTY",
              pos |-> res_long]

EdgeRecordDesc_IDPos(d) == IF d.type = "RecordDesc" THEN d.idpos ELSE -1

EdgeRecordDesc_GetSize(d) == d.size


(***************************************************************************)
(* freelist.h and the container structs of datatypes.h                     *)
(*                                                                         *)
(* heap[a] = [kind, items, desc, cached_hash, st] is the container at      *)
(* address a: items is ob_item[] (for a Set, the list els), desc the       *)
(* index in descs of its descriptor (0: NULL), st one of "live", "pooled"  *)
(* (linked into its kind's free list) and "freed" (given back by tp_free). *)
(* An empty slot holds PyNULL; a pooled object's ob_item[0] holds the      *)
(* address of the next object of its chain.                                *)
(***************************************************************************)
PyNULL == [t |-> "NULL", v |-> 0]
PyPtr(a) == IF a = 0 THEN PyNULL ELSE [t |-> "ptr", v |-> a]
PtrAddr(x) == IF x.t = "ptr" THEN x.v ELSE 0

\* The contents of a field no code has written yet.
Indeterminate == <<48879, 57005, 48879, 57005>>

EDGE_TUPLE_FREELIST_SIZE == 500
EDGE_TUPLE_FREELIST_MAXSAVE == 20
EDGE_OBJECT_FREELIST_SIZE == 2000
EDGE_OBJECT_FREELIST_MAXSAVE == 20
EDGE_ARRAY_FREELIST_SIZE == 500
EDGE_ARRAY_FREELIST_MAXSAVE == 10
EDGE_NAMEDTUPLE_FREELIST_SIZE == 500
EDGE_NAMEDTUPLE_FREELIST_MAXSAVE == 20

PooledKinds == {"Tuple", "Array", "Object", "SparseObject", "NamedTuple"}

\* EDGE_SETUP_FREELIST: _FL_MAX_SAVE_SIZE and _FL_MAX_FREE_LIST of a kind.
\* The SparseObject numbers are defined outside src/; the Object ones
\* stand in for them.
FL_MAX_SAVE_SIZE(kind) ==
    CASE kind = "Tuple" -> EDGE_TUPLE_FREELIST_MAXSAVE
      [] kind = "Array" -> EDGE_ARRAY_FREELIST_MAXSAVE
      [] kind = "NamedTuple" -> EDGE_NAMEDTUPLE_FREELIST_MAXSAVE
      [] OTHER -> EDGE_OBJECT_FREELIST_MAXSAVE

FL_MAX_FREE_LIST(kind) ==
    CASE kind = "Tuple" -> EDGE_TUPLE_FREELIST_SIZE
      [] kind = "Array" -> EDGE_ARRAY_FREELIST_SIZE
      [] kind = "NamedTuple" -> EDGE_NAMEDTUPLE_FREELIST_SIZE
      [] OTHER -> EDGE_OBJECT_FREELIST_SIZE

\* static TYPEDEF *_FL[max_save_size]; static int _FL_NUM_FREE[max_save_size];
EmptyPools ==
    [kind \in PooledKinds |->
        [fl |-> [n \in 0..(FL_MAX_SAVE_SIZE(kind) - 1) |-> 0],
         num_free |-> [n \in 0..(FL_MAX_SAVE_SIZE(kind) - 1) |-> 0]]]

NullSlots(size) == [i \in 1..size |-> PyNULL]

\* A constructor that hands out a pooled object without emptying its slots:
\* the variant C25 rules out.
EDGE_NEW_WITH_FREELIST_NoClear(h, p, kind, size) ==
    IF size < 0
    THEN [err |-> "SystemError", o |-> 0, heap |-> h, pools |-> p]
    ELSE
    LET pooled == /\ FL_MAX_SAVE_SIZE(kind) # 0
                  /\ size < FL_MAX_SAVE_SIZE(kind)
                  /\ p[kind].fl[size] # 0
        o == IF pooled THEN p[kind].fl[size] ELSE Len(h) + 1
        p1 == IF pooled /\ size # 0
              THEN [p EXCEPT ![kind].fl[size] = PtrAddr(h[o].items[1]),
                             ![kind].num_free[size] = @ - 1]
              ELSE p
        h1 == IF pooled
              THEN [h EXCEPT ![o].st = "live"]
              ELSE Append(h, [kind |-> kind, items |-> NullSlots(size),
                              desc |-> 0, cached_hash |-> Indeterminate,
                              st |-> "live"])
    IN  [err |-> "none", o |-> o, heap |-> h1, pools |-> p1]

\* A constructor that takes the head of the chain and leaves it there: the
\* variant C24 rules out.
EDGE_NEW_WITH_FREELIST_NoUnlink(h, p, kind, size) ==
    IF size < 0
    THEN [err |-> "SystemError", o |-> 0, heap |-> h, pools |-> p]
    ELSE
    LET pooled == /\ FL_MAX_SAVE_SIZE(kind) # 0
                  /\ size < FL_MAX_SAVE_SIZE(kind)
                  /\ p[kind].fl[size] # 0
        o == IF pooled THEN p[kind].fl[size] ELSE Len(h) + 1
        h1 == IF pooled
              THEN [h EXCEPT ![o].st = "live", ![o].items = NullSlots(size)]
              ELSE Append(h, [kind |-> kind, items |-> NullSlots(size),
                              desc |-> 0, cached_hash |-> Indeterminate,
                              st |-> "live"])
    IN  [err |-> "none", o |-> o, heap |-> h1, pools |-> p]

\* EDGE_NEW_WITH_FREELIST(NAME, TYPEDEF, TYPE, obj, size) on heap h and
\* pools p: [err, o, heap, pools].  A pooled object keeps the desc and
\* cached_hash it was deallocated with; a fresh one has them unwritten.
EDGE_NEW_WITH_FREELIST(h, p, kind, size) ==
    IF size < 0
    THEN [err |-> "SystemError", o |-> 0, heap |-> h, pools |-> p]
    ELSE
    LET pooled == /\ FL_MAX_SAVE_SIZE(kind) # 0
                  /\ size < FL_MAX_SAVE_SIZE(kind)
                  /\ p[kind].fl[size] # 0
        o == IF pooled THEN p[kind].fl[size] ELSE Len(h) + 1
        p1 == IF pooled /\ size # 0
              THEN [p EXCEPT ![kind].fl[size] = PtrAddr(h[o].items[1]),
                             ![kind].num_free[size] = @ - 1]
              ELSE p
        h1 == IF pooled
              THEN [h EXCEPT ![o].st = "live", ![o].items = NullSlots(size)]
              ELSE Append(h, [kind |-> kind, items |-> NullSlots(size),
                              desc |-> 0, cached_hash |-> Indeterminate,
                              st |-> "live"])
    IN  [err |-> "none", o |-> o, heap |-> h1, pools |-> p1]

\* A destructor that pools an object whatever the bucket holds already: the
\* variant C27 rules out.
EDGE_DEALLOC_WITH_FREELIST_NoLimit(h, p, kind, o) ==
    LET len == Len(h[o].items)
        keep == /\ len > 0
                /\ FL_MAX_SAVE_SIZE(kind) # 0
                /\ len < FL_MAX_SAVE_SIZE(kind)
    IN  IF keep
        THEN [heap |-> [h EXCEPT ![o].st = "pooled",
                                 ![o].items = [NullSlots(len) EXCEPT
                                                 ![1] = PyPtr(p[kind].fl[len])]],
              pools |-> [p EXCEPT ![kind].fl[len] = o,
                                  ![kind].num_free[len] = @ + 1]]
        ELSE [heap |-> [h EXCEPT ![o].st = "freed",
                                 ![o].items = NullSlots(len)],
              pools |-> p]

\* EDGE_DEALLOC_WITH_FREELIST(NAME, TYPEDEF, obj): [heap, pools].
EDGE_DEALLOC_WITH_FREELIST(h, p, kind, o) ==
    LET len == Len(h[o].items)
        keep == /\ len > 0
                /\ FL_MAX_SAVE_SIZE(kind) # 0
                /\ len < FL_MAX_SAVE_SIZE(kind)
                /\ p[kind].num_free[len] < FL_MAX_FREE_LIST(kind)
    IN  IF keep
        THEN [heap |-> [h EXCEPT ![o].st = "pooled",
                                 ![o].items = [NullSlots(len) EXCEPT
                                                 ![1] = PyPtr(p[kind].fl[len])]],
              pools |-> [p EXCEPT ![kind].fl[len] = o,
                                  ![kind].num_free[len] = @ + 1]]
        ELSE [heap |-> [h EXCEPT ![o].st = "freed",
                                 ![o].items = NullSlots(len)],
              pools |-> p]

Failed(e, h, p) == [err |-> e, o |-> 0, heap |-> h, pools |-> p]

\* tuple.c:41-66
EdgeTuple_New(h, p, size) ==
    IF size > EDGE_MAX_TUPLE_SIZE THEN Failed("ValueError", h, p)
    ELSE EDGE_NEW_WITH_FREELIST(h, p, "Tuple", size)

\* array.c:42-60
EdgeArray_New(h, p, size) ==
    LET r == EDGE_NEW_WITH_FREELIST(h, p, "Array", size)
    IN  IF r.err # "none" THEN r
        ELSE [r EXCEPT !.heap[r.o].cached_hash = MinusOne]

\* A constructor that never asks for an id position, in any revision: the
\* variant C10 rules out for the edgedb revision.
EdgeObject_New_NoIdCheck(rv, h, p, ds, di) ==
    IF di = 0 \/ ds[di].type # "RecordDesc" THEN Failed("SystemError", h, p)
    ELSE IF EdgeRecordDesc_GetSize(ds[di]) > EDGE_MAX_TUPLE_SIZE
    THEN Failed("ValueError", h, p)
    ELSE LET r == EDGE_NEW_WITH_FREELIST(h, p, "Object",
                                         EdgeRecordDesc_GetSize(ds[di]))
         IN  IF r.err # "none" THEN r
             ELSE [r EXCEPT !.heap[r.o].desc = di,
                            !.heap[r.o].cached_hash = MinusOne]

\* object.c:42-85 of either revision; di is the descriptor's index in ds
\* (0: NULL).  Only the edgedb revision asks for an id position.
EdgeObject_New(rv, h, p, ds, di) ==
    IF di = 0 \/ ds[di].type # "RecordDesc" THEN Failed("SystemError", h, p)
    ELSE IF rv = "edgedb" /\ EdgeRecordDesc_IDPos(ds[di]) < 0
    THEN Failed("ValueError", h, p)
    ELSE IF EdgeRecordDesc_GetSize(ds[di]) > EDGE_MAX_TUPLE_SIZE
    THEN Failed("ValueError", h, p)
    ELSE LET r == EDGE_NEW_WITH_FREELIST(h, p, "Object",
                                         EdgeRecordDesc_GetSize(ds[di]))
         IN  IF r.err # "none" THEN r
             ELSE [r EXCEPT !.heap[r.o].desc = di,
                            !.heap[r.o].cached_hash = MinusOne]

\* Edge<Kind>_SetItem(ob, i, el) for every position i: the decoder fills a
\* new container before anything else sees it.
SetItems(h, o, values) == [h EXCEPT ![o].items = values]


(***************************************************************************)
(* object.c                                                                *)
(***************************************************************************)
\* A comparison of whole Objects, slot by slot: the variant C1 rules out.
object_richcompare_AllSlots(h, ds, v, w, op) ==
    IF h[v].kind # "Object" \/ h[w].kind # "Object" THEN "NotImplemented"
    ELSE EdgeGeneric_RichCompareValues(h[v].items, h[w].items, op)

\* edgedb/datatypes/object.c:261-288
object_richcompare(h, ds, v, w, op) ==
    IF h[v].kind # "Object" \/ h[w].kind # "Object" THEN "NotImplemented"
    ELSE LET v_id_pos == EdgeRecordDesc_IDPos(ds[h[v].desc])
             w_id_pos == EdgeRecordDesc_IDPos(ds[h[w].desc])
         IN  IF \/ v_id_pos < 0 \/ w_id_pos < 0
                \/ v_id_pos >= Len(h[v].items) \/ w_id_pos >= Len(h[w].items)
             THEN "NULL"
             ELSE PyObject_RichCompare(h[v].items[v_id_pos + 1],
                                       h[w].items[w_id_pos + 1], op)

(***************************************************************************)
(* tuple.c and array.c                                                     *)
(***************************************************************************)
\* tuple.c:115-153, tuple_new(iterable): [err, o, heap, pools]
tuple_new(h, p, values) ==
    LET r == EdgeTuple_New(h, p, Len(values))
    IN  IF r.err # "none" THEN r ELSE [r EXCEPT !.heap = SetItems(@, r.o, values)]

\* array.c:114-152, array_new(iterable)
array_new(h, p, values) ==
    LET r == EdgeArray_New(h, p, Len(values))
    IN  IF r.err # "none" THEN r ELSE [r EXCEPT !.heap = SetItems(@, r.o, values)]

\* tuple.c:82-92
tuple_dealloc(h, p, o) == EDGE_DEALLOC_WITH_FREELIST(h, p, "Tuple", o)

\* array.c:76-87
array_dealloc(h, p, o) ==
    EDGE_DEALLOC_WITH_FREELIST([h EXCEPT ![o].cached_hash = MinusOne], p, "Array", o)

\* tuple.c:95-99: the hash, not cached
tuple_hash(h, o) == EdgeGeneric_Hash(h[o].items)

\* array.c:90-98: [hash, heap, lanes], lanes the number of elements hashed
array_hash(bh, h, o) ==
    LET miss == h[o].cached_hash = MinusOne
        hash == IF miss THEN EdgeGeneric_HashWithBase(bh["Array"], h[o].items)
                ELSE h[o].cached_hash
    IN  [hash |-> hash, heap |-> [h EXCEPT ![o].cached_hash = hash],
         lanes |-> IF miss THEN HashLanes(h[o].items) ELSE 0]

\* tuple.c:287-305, for w a Tuple or a container of another kind
tuple_richcompare(h, v, w, op) ==
    IF h[w].kind = "Tuple"
    THEN EdgeGeneric_RichCompareValues(h[v].items, h[w].items, op)
    ELSE "NotImplemented"

\* array.c:175-193, for w an Array or a container of another kind
array_richcompare(h, v, w, op) ==
    IF h[w].kind = "Array"
    THEN EdgeGeneric_RichCompareValues(h[v].items, h[w].items, op)
    ELSE "NotImplemented"

\* The largest Py_ssize_t, cut to 32 bits (the integers used here); it
\* is only ever compared with sizes.
PY_SSIZE_T_MAX == 2147483647

\* PySlice_Unpack (tuple.c:205): a slice component is <<>> for None, else
\* <<n>>.
PySlice_Unpack(key) ==
    LET step == IF key.step = <<>> THEN 1 ELSE key.step[1]
    IN  [step  |-> step,
         start |-> IF key.start # <<>> THEN key.start[1]
                   ELSE IF step < 0 THEN PY_SSIZE_T_MAX ELSE 0,
         stop  |-> IF key.stop # <<>> THEN key.stop[1]
                   ELSE IF step < 0 THEN -PY_SSIZE_T_MAX ELSE PY_SSIZE_T_MAX]

\* PySlice_AdjustIndices (tuple.c:178): [start, stop, slicelength]
PySlice_AdjustIndices(length, start, stop, step) ==
    LET Clamp(x) == IF x < 0
                    THEN (IF x + length < 0
                          THEN (IF step < 0 THEN -1 ELSE 0) ELSE x + length)
                    ELSE IF x >= length
                    THEN (IF step < 0 THEN length - 1 ELSE length)
                    ELSE x
        b == Clamp(start)
        e == Clamp(stop)
    IN  [start |-> b, stop |-> e,
         slicelength |-> IF step < 0
                         THEN (IF e < b THEN (b - e - 1) \div (-step) + 1 ELSE 0)
                         ELSE (IF b < e THEN (e - b - 1) \div step + 1 ELSE 0)]

\* A slice that copies slicelength neighbouring items from start on,
\* whatever the step: the variant C23 rules out.
tuple_getslice_Contiguous(h, p, o, start, stop, step) ==
    LET size == Len(h[o].items)
        adj  == PySlice_AdjustIndices(size, start, stop, step)
    IN  IF adj.slicelength <= 0 THEN EdgeTuple_New(h, p, 0)
        ELSE IF adj.start = 0 /\ step = 1 /\ adj.slicelength = size
        THEN [err |-> "none", o |-> o, heap |-> h, pools |-> p]
        ELSE LET r == EdgeTuple_New(h, p, adj.slicelength)
             IN  [r EXCEPT !.heap = SetItems(@, r.o,
                    [i \in 1..adj.slicelength |->
                        h[o].items[((adj.start + i - 1) % size) + 1]])]

\* tuple.c:175-198: [err, o, heap, pools]
tuple_getslice(h, p, o, start, stop, step) ==
    LET size == Len(h[o].items)
        adj  == PySlice_AdjustIndices(size, start, stop, step)
    IN  IF adj.slicelength <= 0 THEN EdgeTuple_New(h, p, 0)
        ELSE IF adj.start = 0 /\ step = 1 /\ adj.slicelength = size
        THEN [err |-> "none", o |-> o, heap |-> h, pools |-> p]
        ELSE LET r == EdgeTuple_New(h, p, adj.slicelength)
                 ob_item == SubSeq(h[o].items, 1, size)
                 first == adj.start
             IN  [r EXCEPT !.heap = SetItems(@, r.o,
                    [i \in 1..adj.slicelength |->
                        ob_item[first + (i - 1) * step + 1]])]

\* tuple.c:200-227 with a slice as the key
tuple_getsubscript(h, p, o, key) ==
    LET u == PySlice_Unpack(key)
    IN  tuple_getslice(h, p, o, u.start, u.stop, u.step)

\* tuple.c:229-285: [err, o, heap, pools]
tuple_concat(h, p, self, other) ==
    IF h[other].kind # "Tuple" THEN Failed("TypeError", h, p)
    ELSE IF Len(h[self].items) = 0
    THEN [err |-> "none", o |-> other, heap |-> h, pools |-> p]
    ELSE IF Len(h[other].items) = 0
    THEN [err |-> "none", o |-> self, heap |-> h, pools |-> p]
    ELSE LET np == EdgeTuple_New(h, p, Len(h[self].items) + Len(h[other].items))
         IN  IF np.err # "none" THEN np
             ELSE [np EXCEPT !.heap = SetItems(@, np.o,
                                        h[self].items \o h[other].items)]

(***************************************************************************)
(* set.c                                                                   *)
(***************************************************************************)
\* set.c:28-50.  A Set is not pooled: PyList_New(size), PyObject_GC_New.
EdgeSet_New(h, size) ==
    LET o == Len(h) + 1
    IN  [err |-> "none", o |-> o,
         heap |-> Append(h, [kind |-> "Set", items |-> NullSlots(size),
                             desc |-> 0, cached_hash |-> MinusOne,
                             st |-> "live"])]

\* set.c:53-60: PyList_SetItem(o->els, pos, el); pos is 0-based.
EdgeSet_SetItem(h, o, pos, el) ==
    IF pos < 0 \/ pos >= Len(h[o].items)
    THEN [err |-> "IndexError", heap |-> h]
    ELSE [err |-> "none", heap |-> [h EXCEPT ![o].items[pos + 1] = el]]

\* An append that forgets the stored hash: the variant C28 rules out.
EdgeSet_AppendItem_Reset(h, o, el) ==
    [err |-> "none", heap |-> [h EXCEPT ![o].items = Append(@, el),
                                        ![o].cached_hash = MinusOne]]

\* set.c:74-80: PyList_Append(o->els, el)
EdgeSet_AppendItem(h, o, el) ==
    [err |-> "none", heap |-> [h EXCEPT ![o].items = Append(@, el)]]

\* set.c:144-154: [hash, heap, lanes]
set_hash(bh, h, o) ==
    LET miss == h[o].cached_hash = MinusOne
        hash == IF miss THEN EdgeGeneric_HashWithBase(bh["Set"], h[o].items)
                ELSE h[o].cached_hash
    IN  [hash |-> hash, heap |-> [h EXCEPT ![o].cached_hash = hash],
         lanes |-> IF miss THEN HashLanes(h[o].items) ELSE 0]

\* PyList_Sort as set_richcompare calls it (set.c:223, 227): the sort is
\* stable, orders by < alone, and fails when a comparison it makes raises.
\* With two elements or more every element takes part in a comparison, and
\* two elements that cannot be ordered meet in one.
SortFails(l) ==
    \E i \in 1..Len(l), j \in 1..Len(l) :
        i < j /\ \/ PyObject_RichCompare(l[i], l[j], "LT") = "NULL"
                 \/ PyObject_RichCompare(l[j], l[i], "LT") = "NULL"

RECURSIVE InsertLast(_, _)
InsertLast(sorted, x) ==
    IF sorted = <<>> THEN <<x>>
    ELSE IF PyObject_RichCompare(x, sorted[Len(sorted)], "LT") = "True"
    THEN Append(InsertLast(SubSeq(sorted, 1, Len(sorted) - 1), x),
                sorted[Len(sorted)])
    ELSE Append(sorted, x)

RECURSIVE SortedPrefix(_, _)
SortedPrefix(l, n) ==
    IF n = 0 THEN <<>> ELSE InsertLast(SortedPrefix(l, n - 1), l[n])

PyList_Sort(l) ==
    IF SortFails(l) THEN [err |-> "raised", l |-> l]
    ELSE [err |-> "none", l |-> SortedPrefix(l, Len(l))]

\* PyObject_RichCompareBool(left, right, Py_EQ) on two lists (set.c:203,
\* 231): 1, 0 or -1.  same tells whether the two are one list object.
ListEqBool(left, right, same) ==
    IF same THEN 1
    ELSE IF Len(left) # Len(right) THEN 0
    ELSE LET i == FirstDiff(left, right, 1)
         IN  IF i = 0 THEN -1 ELSE IF i > Len(left) THEN 1 ELSE 0

\* A comparison of the two lists in stored order, without the sort: the
\* variant the order-insensitivity of C2 rules out.
set_richcompare_Unsorted(h, v, w, op) ==
    IF op \notin {"EQ", "NE"} \/ h[w].kind # "Set" THEN "NotImplemented"
    ELSE LET res == ListEqBool(h[v].items, h[w].items, v = w)
         IN  IF res < 0 THEN "NULL"
             ELSE IF (res = 1) = (op = "EQ") THEN "True" ELSE "False"

\* set.c:177-260, for ww a Set or a container of another kind.
set_richcompare(h, v, w, op) ==
    IF op \notin {"EQ", "NE"} \/ h[w].kind # "Set" THEN "NotImplemented"
    ELSE LET vlen  == Len(h[v].items)
             left  == PyList_Sort(h[v].items)
             right == PyList_Sort(h[w].items)
             res   == IF vlen # Len(h[w].items) THEN 0
                      ELSE IF vlen = 1
                      THEN ListEqBool(h[v].items, h[w].items, v = w)
                      ELSE IF left.err # "none" \/ right.err # "none" THEN -1
                      ELSE ListEqBool(left.l, right.l, FALSE)
         IN  IF res < 0 THEN "NULL"
             ELSE IF (res = 1) = (op = "EQ") THEN "True" ELSE "False"

(***************************************************************************)
(* What a call returned: ret.op names the call, a and b its container or   *)
(* descriptor arguments, key its name or operator argument; val is the     *)
(* returned value, err the exception raised ("none" if none), o a returned *)
(* container's address, pos a returned position and size the size asked of *)
(* a constructor.  For a hash call, h is the returned hash, pre the cached *)
(* hash the call found, and lanes the number of elements it hashed.        *)
(***************************************************************************)
NoRet == [op |-> "none", a |-> 0, b |-> 0, key |-> "", val |-> "", err |-> "none",
          o |-> 0, pos |-> -1, size |-> 0, h |-> MinusOne, pre |-> MinusOne,
          lanes |-> 0]

Live(kind) == {a \in 1..Len(heap) : heap[a].st = "live" /\ heap[a].kind = kind}

(***************************************************************************)
(* Bounds and inputs of the descriptor and Object specification.           *)
(***************************************************************************)
MaxDescs == 2
MaxHeap == 1

\* The shapes the decoder registers: the names, the flags (NULL, or one
\* per name) and, for the gel revision, the cardinality codes.
DescShapes ==
    { [names |-> <<"id", "name", "@since">>, flags |-> ArgTuple(<<0, 0, 2>>),
       cards |-> ArgNull],
      [names |-> <<"id", "name", "@since">>, flags |-> ArgTuple(<<1, 4, 6>>),
       cards |-> ArgTuple(<<65, 111, 109>>)],
      [names |-> <<"name", "id">>, flags |-> ArgTuple(<<0, 1>>),
       cards |-> ArgNull],
      [names |-> <<"name", "id">>, flags |-> ArgNull, cards |-> ArgNull],
      [names |-> <<"name">>, flags |-> ArgTuple(<<4>>), cards |-> ArgNull],
      [names |-> <<"id", "id">>, flags |-> ArgTuple(<<2, 0>>),
       cards |-> ArgNull],
      [names |-> <<"id", "name">>, flags |-> ArgTuple(<<0>>),
       cards |-> ArgNull] }

LookupKeys == {"id", "name", "@since", "missing"}

\* The slot values of a decoded Object of n fields.
DecodedValues(n) == { [i \in 1..n |-> PyInt(i)] }

Init ==
    /\ rev \in {"edgedb", "gel"}
    /\ base_hash = BaseHashSmall
    /\ descs = <<>>
    /\ heap = <<>>
    /\ pools = EmptyPools
    /\ ret = NoRet

\* The decoder registers a result shape: EdgeRecordDesc_New.
RecordDescNew(shape) ==
    /\ LET r == EdgeRecordDesc_New(rev, shape.names, shape.flags, shape.cards)
       IN  /\ descs' = IF r.err = "none" THEN Append(descs, r.d) ELSE descs
           /\ ret' = [NoRet EXCEPT !.op = "RecordDesc_New", !.err = r.err,
                                   !.a = IF r.err = "none" THEN Len(descs) + 1 ELSE 0]
    /\ UNCHANGED <<rev, base_hash, heap, pools>>

\* The decoder builds an Object of shape descs[di]: EdgeObject_New, then
\* EdgeObject_SetItem for every position.
ObjectDecode(di, values) ==
    /\ LET r == EdgeObject_New(rev, heap, pools, descs, di)
       IN  /\ heap' = IF r.err = "none" THEN SetItems(r.heap, r.o, values) ELSE r.heap
           /\ pools' = r.pools
           /\ ret' = [NoRet EXCEPT !.op = "Object_New", !.a = di, !.err = r.err,
                                   !.o = r.o]
    /\ UNCHANGED <<rev, base_hash, descs>>

\* EdgeRecordDesc_Lookup(descs[di], key)
Lookup(di, key) ==
    /\ LET r == EdgeRecordDesc_Lookup(descs[di], key)
       IN  ret' = [NoRet EXCEPT !.op = "Lookup", !.a = di, !.key = key,
                                !.val = r.res, !.pos = r.pos]
    /\ UNCHANGED <<rev, base_hash, descs, heap, pools>>

Next ==
    \/ \E shape \in DescShapes : Len(descs) < MaxDescs /\ RecordDescNew(shape)
    \/ \E di \in 1..Len(descs) :
         \E values \in DecodedValues(descs[di].size) :
            Len(heap) < MaxHeap /\ ObjectDecode(di, values)
    \/ \E di \in 1..Len(descs), key \in LookupKeys : Lookup(di, key)

Spec == Init /\ [][Next]_vars


(***************************************************************************)
(* Comparison of Objects (edgedb revision): the shapes are registered, the *)
(* decoder builds Objects of them and the caller compares them.            *)
(***************************************************************************)
MaxObjects == 2

\* The registered shapes: the id first, the id last, and a repeated name.
ObjectShapes ==
    << [names |-> <<"id", "name", "@since">>, flags |-> ArgTuple(<<0, 0, 2>>)],
       [names |-> <<"name", "id">>, flags |-> ArgTuple(<<0, 1>>)],
       [names |-> <<"id", "id">>, flags |-> ArgTuple(<<2, 0>>)] >>

\* The slot values of a decoded Object of n fields: an int in one slot and,
\* in every other slot, an object whose comparison raises.
ObjectValues(n) ==
    { [i \in 1..n |-> IF i = j THEN PyInt(k) ELSE PyRaiser(7)] :
        j \in 1..n, k \in 1..2 }

CompareOps == {"EQ", "NE"}

InitObject ==
    /\ rev = "edgedb"
    /\ base_hash = BaseHashSmall
    /\ descs = [i \in 1..Len(ObjectShapes) |->
                  EdgeRecordDesc_New("edgedb", ObjectShapes[i].names,
                                     ObjectShapes[i].flags, ArgNull).d]
    /\ heap = <<>>
    /\ pools = EmptyPools
    /\ ret = NoRet

\* v == w and v != w on two Objects (the gel revision defines no
\* tp_richcompare).
ObjectRichCompare(v, w, op) ==
    /\ rev = "edgedb"
    /\ LET r == object_richcompare(heap, descs, v, w, op)
       IN  ret' = [NoRet EXCEPT !.op = "object_richcompare", !.a = v, !.b = w,
                                !.key = op, !.val = r,
                                !.err = IF r = "NULL" THEN "raised" ELSE "none"]
    /\ UNCHANGED <<rev, base_hash, descs, heap, pools>>

NextObject ==
    \/ \E di \in 1..Len(descs) :
         \E values \in ObjectValues(descs[di].size) :
            Len(heap) < MaxObjects /\ ObjectDecode(di, values)
    \/ \E v \in Live("Object"), w \in Live("Object"), op \in CompareOps :
         ObjectRichCompare(v, w, op)

SpecObject == InitObject /\ [][NextObject]_vars


(***************************************************************************)
(* Properties of the descriptor and Object specification.                  *)
(***************************************************************************)
\* The last position (0-based) at which names holds key, -1 if none does.
LastPosOf(names, key) ==
    IF \E i \in 1..Len(names) : names[i] = key
    THEN (CHOOSE i \in 1..Len(names) :
            names[i] = key /\ \A j \in (i + 1)..Len(names) : names[j] # key) - 1
    ELSE -1

\* The value in the slot of an Object's shape that is named "id".
IdSlotOf(o) ==
    heap[o].items[LastPosOf(descs[heap[o].desc].names, "id") + 1]

HostEqual(x, y) == PyObject_RichCompare(x, y, "EQ") = "True"
HostComparable(x, y) == PyObject_RichCompare(x, y, "EQ") # "NULL"

\* C1: comparing two Objects with == or != compares the values of their id
\* slots and nothing else: when the two ids can be compared, == is true
\* exactly when they are equal and != exactly when they are not, whatever
\* the two shapes are and whatever the other slots hold (a slot whose
\* comparison would raise is never compared); when the ids cannot be
\* compared, the comparison raises.
C1_ObjectEqIffIdEq ==
    ret.op = "object_richcompare" =>
        LET vid == IdSlotOf(ret.a)
            wid == IdSlotOf(ret.b)
        IN  IF HostComparable(vid, wid)
            THEN /\ ret.key = "EQ" => (ret.val = "True") = HostEqual(vid, wid)
                 /\ ret.key = "EQ" => (ret.val = "False") = ~HostEqual(vid, wid)
                 /\ ret.key = "NE" => (ret.val = "True") = ~HostEqual(vid, wid)
                 /\ ret.key = "NE" => (ret.val = "False") = HostEqual(vid, wid)
            ELSE ret.val = "NULL"

\* Two distinct Objects of different shapes, equal by id although every
\* other slot holds a value whose comparison raises, compared equal.
C1_Witness ==
    /\ ret.op = "object_richcompare" /\ ret.key = "EQ" /\ ret.val = "True"
    /\ ret.a # ret.b
    /\ descs[heap[ret.a].desc].names # descs[heap[ret.b].desc].names
    /\ \E i \in 1..Len(heap[ret.a].items) : heap[ret.a].items[i].t = "raiser"
    /\ \E i \in 1..Len(heap[ret.b].items) : heap[ret.b].items[i].t = "raiser"

\* The classification the flags given to the constructor ask for.
ClassOfFlags(f) ==
    IF HasBit(f, EDGE_POINTER_IS_LINKPROP) THEN "L_LINKPROP"
    ELSE IF HasBit(f, EDGE_POINTER_IS_LINK) THEN "L_LINK"
    ELSE "L_PROPERTY"

\* C4: a lookup answers L_NOT_FOUND exactly when the key is not one of the
\* descriptor's names; otherwise it answers the position indexed for the
\* key (the last one holding that name) and the class of the flag given for
\* that position at construction, LinkProp before Link before Property
\* (Property when no flags were given).  This holds for every lookup made
\* in any reachable state, so repeating a lookup gives the same answer.
C4_LookupMatchesFlags ==
    ret.op = "Lookup" =>
        LET d == descs[ret.a]
            p == LastPosOf(d.names, ret.key)
        IN  IF p < 0
            THEN ret.val = "L_NOT_FOUND"
            ELSE /\ ret.pos = p
                 /\ ret.val = IF d.given.some
                              THEN ClassOfFlags(d.given.seq[p + 1])
                              ELSE "L_PROPERTY"

\* The lookup of "@since" in the shape ("id", "name", "@since") with flags
\* (0, 0, LINKPROP), made while an Object of that shape exists.
C4_Witness ==
    /\ ret.op = "Lookup" /\ ret.key = "@since"
    /\ ret.val = "L_LINKPROP" /\ ret.pos = 2
    /\ descs[ret.a].given = ArgTuple(<<0, 0, 2>>)
    /\ \E o \in Live("Object") : heap[o].desc = ret.a

IdPosValid(o) ==
    /\ heap[o].desc # 0
    /\ EdgeRecordDesc_IDPos(descs[heap[o].desc]) >= 0
    /\ EdgeRecordDesc_IDPos(descs[heap[o].desc]) < Len(heap[o].items)

MaxSetLen == 3

SetElems == {PyInt(1), PyInt(2), PyInt(3)}

InitSet ==
    /\ rev = "edgedb"
    /\ base_hash = BaseHashSmall
    /\ descs = <<>>
    /\ heap = EdgeSet_New(EdgeSet_New(<<>>, 0).heap, 0).heap
    /\ pools = EmptyPools
    /\ ret = NoRet

\* EdgeSet_AppendItem(o, el)
SetAppend(o, el) ==
    /\ LET r == EdgeSet_AppendItem(heap, o, el)
       IN  /\ heap' = r.heap
           /\ ret' = [NoRet EXCEPT !.op = "Set_AppendItem", !.a = o, !.err = r.err]
    /\ UNCHANGED <<rev, base_hash, descs, pools>>

\* v == w and v != w on two Sets
SetRichCompare(v, w, op) ==
    /\ LET r == set_richcompare(heap, v, w, op)
       IN  ret' = [NoRet EXCEPT !.op = "set_richcompare", !.a = v, !.b = w,
                                !.key = op, !.val = r,
                                !.err = IF r = "NULL" THEN "raised" ELSE "none"]
    /\ UNCHANGED <<rev, base_hash, descs, heap, pools>>

NextSet ==
    \/ \E o \in Live("Set"), el \in SetElems :
         Len(heap[o].items) < MaxSetLen /\ SetAppend(o, el)
    \/ \E v \in Live("Set"), w \in Live("Set"), op \in CompareOps :
         SetRichCompare(v, w, op)

SpecSet == InitSet /\ [][NextSet]_vars

\* The number of elements of a list that are equal to x.
CountEqual(l, x) == Cardinality({i \in 1..Len(l) : HostEqual(l[i], x)})

SameMultiset(l, r) ==
    /\ Len(l) = Len(r)
    /\ \A i \in 1..Len(l) : CountEqual(l, l[i]) = CountEqual(r, l[i])

\* C2: for two Sets whose elements are numbers (any two of which can be
\* ordered), == answers True exactly when the two have the same length and
\* the same multiset of elements, whatever order they were appended in, and
\* != answers the opposite; neither raises.
C2_SetEqIsMultisetEq ==
    (ret.op = "set_richcompare" /\ ret.key \in {"EQ", "NE"}) =>
        LET same == SameMultiset(heap[ret.a].items, heap[ret.b].items)
        IN  /\ ret.val \in {"True", "False"}
            /\ (ret.val = "True") = (same = (ret.key = "EQ"))

\* The Sets built by appending 1, 2, 3 and 3, 2, 1 compared equal.
C2_Witness ==
    /\ ret.op = "set_richcompare" /\ ret.key = "EQ" /\ ret.val = "True"
    /\ heap[ret.a].items = <<PyInt(1), PyInt(2), PyInt(3)>>
    /\ heap[ret.b].items = <<PyInt(3), PyInt(2), PyInt(1)>>


(***************************************************************************)
(* Hashing of Sets: S and T are created empty, filled by appends, hashed   *)
(* and compared.                                                           *)
(***************************************************************************)
MaxHashedLen == 2

HashedElems == {PyInt(1), PyInt(2)}

InitSetHash ==
    /\ rev = "edgedb"
    /\ base_hash \in BaseHashChoices
    /\ descs = <<>>
    /\ heap = EdgeSet_New(EdgeSet_New(<<>>, 0).heap, 0).heap
    /\ pools = EmptyPools
    /\ ret = NoRet

\* hash(o) on a Set
SetHash(o) ==
    /\ LET r == set_hash(base_hash, heap, o)
       IN  /\ heap' = r.heap
           /\ ret' = [NoRet EXCEPT
                        !.op = "set_hash", !.a = o, !.h = r.hash,
                        !.pre = heap[o].cached_hash,
                        !.lanes = r.lanes,
                        !.err = IF r.hash = MinusOne THEN "raised" ELSE "none"]
    /\ UNCHANGED <<rev, base_hash, descs, pools>>

NextSetHash ==
    \/ \E o \in Live("Set"), el \in HashedElems :
         Len(heap[o].items) < MaxHashedLen /\ SetAppend(o, el)
    \/ \E o \in Live("Set") : SetHash(o)
    \/ \E v \in Live("Set"), w \in Live("Set"), op \in CompareOps :
         SetRichCompare(v, w, op)

SpecSetHash == InitSetHash /\ [][NextSetHash]_vars

\* A Set that has been hashed and not changed since: its stored hash is the
\* hash of the elements it holds now.
HashedUnchanged(o) ==
    /\ heap[o].cached_hash # MinusOne
    /\ heap[o].cached_hash = EdgeGeneric_HashWithBase(base_hash["Set"], heap[o].items)

\* C3: any two Sets that were hashed and not changed afterwards and that
\* compare equal have equal hashes, also when they hold the same elements
\* appended in different orders.
C3_EqualSetsEqualHashes ==
    \A v \in Live("Set"), w \in Live("Set") :
        (/\ HashedUnchanged(v) /\ HashedUnchanged(w)
         /\ set_richcompare(heap, v, w, "EQ") = "True")
        => heap[v].cached_hash = heap[w].cached_hash

\* S holds 1, 2 and T holds 2, 1; both have been hashed and S == T has just
\* answered True.
C3_Witness ==
    /\ ret.op = "set_richcompare" /\ ret.key = "EQ" /\ ret.val = "True"
    /\ ret.a = 1 /\ ret.b = 2
    /\ heap[1].items = <<PyInt(1), PyInt(2)>>
    /\ heap[2].items = <<PyInt(2), PyInt(1)>>
    /\ HashedUnchanged(1) /\ HashedUnchanged(2)


(***************************************************************************)
(* Hashing and comparison of Tuples and Arrays: A (address 1) and B        *)
(* (address 2) are two containers of one kind built from two iterables.    *)
(***************************************************************************)
MaxSeqLen == 2

\* 1 and 1.0 are equal and have equal hashes.
SeqElems == {PyInt(1), PyFloat(1), PyInt(2)}

SeqInputs == UNION { [1..n -> SeqElems] : n \in 0..MaxSeqLen }

InitSeq ==
    /\ rev = "edgedb"
    /\ base_hash = BaseHashLarge
    /\ descs = <<>>
    /\ \E a \in SeqInputs, b \in SeqInputs :
         \/ LET ra == tuple_new(<<>>, EmptyPools, a)
                rb == tuple_new(ra.heap, ra.pools, b)
            IN  heap = rb.heap /\ pools = rb.pools
         \/ LET ra == array_new(<<>>, EmptyPools, a)
                rb == array_new(ra.heap, ra.pools, b)
            IN  heap = rb.heap /\ pools = rb.pools
    /\ ret = NoRet

\* hash(o) on a Tuple
TupleHash(o) ==
    /\ LET hash == tuple_hash(heap, o)
       IN  ret' = [NoRet EXCEPT !.op = "tuple_hash", !.a = o, !.h = hash,
                                !.lanes = HashLanes(heap[o].items),
                                !.err = IF hash = MinusOne THEN "raised" ELSE "none"]
    /\ UNCHANGED <<rev, base_hash, descs, heap, pools>>

\* hash(o) on an Array
ArrayHash(o) ==
    /\ LET r == array_hash(base_hash, heap, o)
       IN  /\ heap' = r.heap
           /\ ret' = [NoRet EXCEPT !.op = "array_hash", !.a = o, !.h = r.hash,
                                   !.pre = heap[o].cached_hash, !.lanes = r.lanes,
                                   !.err = IF r.hash = MinusOne THEN "raised"
                                           ELSE "none"]
    /\ UNCHANGED <<rev, base_hash, descs, pools>>

\* v == w and v != w on two Tuples or two Arrays
SeqRichCompare(v, w, op) ==
    /\ LET r == IF heap[v].kind = "Tuple" THEN tuple_richcompare(heap, v, w, op)
                ELSE array_richcompare(heap, v, w, op)
       IN  ret' = [NoRet EXCEPT !.op = "richcompare", !.a = v, !.b = w,
                                !.key = op, !.val = r,
                                !.err = IF r = "NULL" THEN "raised" ELSE "none"]
    /\ UNCHANGED <<rev, base_hash, descs, heap, pools>>

NextSeq ==
    \/ \E o \in Live("Tuple") : TupleHash(o)
    \/ \E o \in Live("Array") : ArrayHash(o)
    \/ \E v \in 1..Len(heap), w \in 1..Len(heap), op \in CompareOps :
         SeqRichCompare(v, w, op)

SpecSeq == InitSeq /\ [][NextSeq]_vars

\* Two containers of equal length whose elements are pairwise equal and
\* have pairwise equal hashes.
Alike(v, w) ==
    /\ Len(heap[v].items) = Len(heap[w].items)
    /\ \A i \in 1..Len(heap[v].items) :
         /\ HostEqual(heap[v].items[i], heap[w].items[i])
         /\ PyObject_Hash(heap[v].items[i]) = PyObject_Hash(heap[w].items[i])

\* C5: for two Tuples, or two Arrays, of equal length whose elements are
\* pairwise equal with equal hashes, == answers True and != False, and a
\* hash call on one right after a hash call on the other returns the same
\* hash, whether the calls found a cached hash or computed one.
C5_AlikeEqualAndSameHash ==
    [][ /\ (ret'.op = "richcompare" /\ Alike(ret'.a, ret'.b)) =>
              ret'.val = (IF ret'.key = "EQ" THEN "True" ELSE "False")
        /\ (/\ ret.op \in {"tuple_hash", "array_hash"} /\ ret'.op = ret.op
            /\ Alike(ret.a, ret'.a)) => (ret'.h = ret.h /\ ret'.h # MinusOne)
      ]_vars

\* Two Arrays holding 1, 2 and 1.0, 2: the hash of the first was returned
\* from its cache, after the second had been hashed.
C5_Witness ==
    /\ ret.op = "array_hash" /\ ret.pre # MinusOne /\ ret.a = 1
    /\ heap[1].items = <<PyInt(1), PyInt(2)>>
    /\ heap[2].items = <<PyFloat(1), PyInt(2)>>
    /\ heap[2].cached_hash = ret.h


(***************************************************************************)
(* Construction, slicing and concatenation of Tuples, construction of      *)
(* Arrays, and the free lists behind them.                                 *)
(***************************************************************************)
\* Objects ever allocated: a deallocated one keeps its address.
MaxAlloc == 2

\* Lengths of the iterables handed to edgedb.Tuple and edgedb.Array: the
\* largest Tuple, and one element more.
NewSizes == {0, 1, 2, EDGE_MAX_TUPLE_SIZE, EDGE_MAX_TUPLE_SIZE + 1}

NewInputs == { [i \in 1..n |-> PyInt(1)] : n \in NewSizes }

\* T[:], T[1:], T[:1] and T[::-1]
SliceKeys ==
    { [name |-> "[:]",    start |-> <<>>,  stop |-> <<>>,  step |-> <<>>],
      [name |-> "[1:]",   start |-> <<1>>, stop |-> <<>>,  step |-> <<>>],
      [name |-> "[:1]",   start |-> <<>>,  stop |-> <<1>>, step |-> <<>>],
      [name |-> "[::-1]", start |-> <<>>,  stop |-> <<>>,  step |-> <<-1>>] }

InitTuple ==
    /\ rev = "edgedb"
    /\ base_hash = BaseHashSmall
    /\ descs = <<>>
    /\ heap = <<>>
    /\ pools = EmptyPools
    /\ ret = NoRet

\* edgedb.Tuple(values)
TupleNew(values) ==
    /\ LET r == tuple_new(heap, pools, values)
       IN  /\ heap' = r.heap
           /\ pools' = r.pools
           /\ ret' = [NoRet EXCEPT !.op = "tuple_new", !.size = Len(values),
                                   !.err = r.err, !.o = r.o]
    /\ UNCHANGED <<rev, base_hash, descs>>

\* edgedb.Array(values)
ArrayNew(values) ==
    /\ LET r == array_new(heap, pools, values)
       IN  /\ heap' = r.heap
           /\ pools' = r.pools
           /\ ret' = [NoRet EXCEPT !.op = "array_new", !.size = Len(values),
                                   !.err = r.err, !.o = r.o]
    /\ UNCHANGED <<rev, base_hash, descs>>

\* o[key] for a slice key
TupleSlice(o, key) ==
    /\ LET r == tuple_getsubscript(heap, pools, o, key)
       IN  /\ heap' = r.heap
           /\ pools' = r.pools
           /\ ret' = [NoRet EXCEPT !.op = "tuple_getsubscript", !.a = o,
                                   !.key = key.name, !.err = r.err, !.o = r.o]
    /\ UNCHANGED <<rev, base_hash, descs>>

\* a + b
TupleConcat(a, b) ==
    /\ LET r == tuple_concat(heap, pools, a, b)
       IN  /\ heap' = r.heap
           /\ pools' = r.pools
           /\ ret' = [NoRet EXCEPT !.op = "tuple_concat", !.a = a, !.b = b,
                                   !.size = Len(heap[a].items) + Len(heap[b].items),
                                   !.err = r.err, !.o = r.o]
    /\ UNCHANGED <<rev, base_hash, descs>>

\* The last reference to o goes away.
SeqDealloc(o) ==
    /\ LET r == IF heap[o].kind = "Tuple" THEN tuple_dealloc(heap, pools, o)
                ELSE array_dealloc(heap, pools, o)
       IN  /\ heap' = r.heap
           /\ pools' = r.pools
    /\ ret' = [NoRet EXCEPT !.op = "dealloc", !.a = o]
    /\ UNCHANGED <<rev, base_hash, descs>>

NextTuple ==
    \/ \E values \in NewInputs : TupleNew(values) /\ Len(heap') <= MaxAlloc
    \/ \E values \in NewInputs : ArrayNew(values) /\ Len(heap') <= MaxAlloc
    \/ \E o \in Live("Tuple"), key \in SliceKeys :
         TupleSlice(o, key) /\ Len(heap') <= MaxAlloc
    \/ \E a \in Live("Tuple"), b \in Live("Tuple") \cup Live("Array") :
         TupleConcat(a, b) /\ Len(heap') <= MaxAlloc
    \/ \E o \in Live("Tuple") \cup Live("Array") : SeqDealloc(o)

SpecTuple == InitTuple /\ [][NextTuple]_vars

\* C6: the whole-range slice T[:] of every Tuple T, the empty ones
\* included, is the instance T itself.
C6_WholeSliceIsSelf ==
    (ret.op = "tuple_getsubscript" /\ ret.key = "[:]") =>
        (ret.err = "none" /\ ret.o = ret.a)

\* T[:] on an empty Tuple returned another instance.
C6_Witness ==
    /\ ret.op = "tuple_getsubscript" /\ ret.key = "[:]"
    /\ Len(heap[ret.a].items) = 0
    /\ ret.err = "none" /\ ret.o # ret.a

\* C7: for every Tuple T and every empty Tuple E, T + E is the instance T
\* and E + T is the instance T, also when T is empty and another instance
\* than E.
C7_ConcatEmptyIsOther ==
    (ret.op = "tuple_concat" /\ heap[ret.b].kind = "Tuple") =>
        /\ Len(heap[ret.b].items) = 0 => (ret.err = "none" /\ ret.o = ret.a)
        /\ Len(heap[ret.a].items) = 0 => (ret.err = "none" /\ ret.o = ret.b)

\* T + E on two empty Tuples returned E, not T.
C7_Witness ==
    /\ ret.op = "tuple_concat" /\ ret.a # ret.b
    /\ heap[ret.b].kind = "Tuple"
    /\ Len(heap[ret.a].items) = 0 /\ Len(heap[ret.b].items) = 0
    /\ ret.o = ret.b

\* C8: a construction of more than EDGE_MAX_TUPLE_SIZE slots, asked for
\* directly or by a concatenation, raises ValueError, returns no container
\* and leaves the free lists as they were.
C8_OversizeRejected ==
    [][ (/\ ret'.op \in {"tuple_new", "array_new", "tuple_concat"}
         /\ ret'.size > EDGE_MAX_TUPLE_SIZE
         /\ ret'.err # "TypeError") =>
            (ret'.err = "ValueError" /\ ret'.o = 0 /\ pools' = pools) ]_vars

\* edgedb.Array of EDGE_MAX_TUPLE_SIZE + 1 elements returned an Array.
C8_Witness ==
    /\ ret.op = "array_new" /\ ret.size > EDGE_MAX_TUPLE_SIZE
    /\ ret.err = "none" /\ ret.o # 0
    /\ heap[ret.o].kind = "Array" /\ Len(heap[ret.o].items) = ret.size


(***************************************************************************)
(* The cached hash of Objects, Arrays, SparseObjects and Sets.             *)
(***************************************************************************)
\* input_shape.c:139-161, the loop from position i (0-based) on
RECURSIVE InputShapeLoop(_, _, _)
InputShapeLoop(names, i, index) ==
    IF i >= Len(names) THEN index
    ELSE InputShapeLoop(names, i + 1, DictSet(index, names[i + 1], i))

\* input_shape.c:112-180, EdgeInputShape_New(names): [err, d]
EdgeInputShape_New(names) ==
    IF Len(names) > EDGE_MAX_TUPLE_SIZE THEN [err |-> "ValueError", d |-> NoDesc]
    ELSE IF \E i \in 1..Len(names) : ~PyUnicode_CheckExact(names[i])
    THEN [err |-> "ValueError", d |-> NoDesc]
    ELSE [err |-> "none",
          d |-> [NoDesc EXCEPT !.type = "InputShape", !.names = names,
                               !.index = InputShapeLoop(names, 0, EmptyIndex),
                               !.size = Len(names)]]

\* input_shape.c:233-243
EdgeInputShape_GetSize(d) == IF d.type # "InputShape" THEN -1 ELSE d.size

\* sparse_object.c:42-78; di is the shape's index in ds (0: NULL)
EdgeSparseObject_New(h, p, ds, di) ==
    IF di = 0 \/ ds[di].type # "InputShape" THEN Failed("SystemError", h, p)
    ELSE IF EdgeInputShape_GetSize(ds[di]) > EDGE_MAX_TUPLE_SIZE
    THEN Failed("ValueError", h, p)
    ELSE LET r == EDGE_NEW_WITH_FREELIST(h, p, "SparseObject",
                                         EdgeInputShape_GetSize(ds[di]))
         IN  IF r.err # "none" THEN r
             ELSE [r EXCEPT !.heap[r.o].desc = di,
                            !.heap[r.o].cached_hash = MinusOne]

\* set.c:91-118, edgedb.Set(values): EdgeSet_New(0), then _PyList_Extend
set_tp_new(h, values) ==
    LET r == EdgeSet_New(h, 0)
    IN  [r EXCEPT !.heap[r.o].items = @ \o values]

\* object.c:148-160
object_dealloc(h, p, o) ==
    EDGE_DEALLOC_WITH_FREELIST(
        [h EXCEPT ![o].desc = 0, ![o].cached_hash = MinusOne], p, "Object", o)

\* sparse_object.c:125-137
sparse_object_dealloc(h, p, o) ==
    EDGE_DEALLOC_WITH_FREELIST(
        [h EXCEPT ![o].desc = 0, ![o].cached_hash = MinusOne], p,
        "SparseObject", o)

\* set.c:129-141: [heap, pools]
set_dealloc(h, p, o) ==
    [heap |-> [h EXCEPT ![o].cached_hash = MinusOne, ![o].items = <<>>,
                        ![o].st = "freed"],
     pools |-> p]

\* A hash that is computed and stored anew on every call: the variant C9
\* rules out.
object_hash_Recompute(bh, h, o) ==
    LET hash == EdgeGeneric_HashWithBase(bh["Object"], h[o].items)
    IN  [hash |-> hash, heap |-> [h EXCEPT ![o].cached_hash = hash],
         lanes |-> HashLanes(h[o].items)]

\* object.c:178-186: [hash, heap, lanes]
object_hash(bh, h, o) ==
    LET miss == h[o].cached_hash = MinusOne
        hash == IF miss THEN EdgeGeneric_HashWithBase(bh["Object"], h[o].items)
                ELSE h[o].cached_hash
    IN  [hash |-> hash, heap |-> [h EXCEPT ![o].cached_hash = hash],
         lanes |-> IF miss THEN HashLanes(h[o].items) ELSE 0]

\* sparse_object.c:155-163: [hash, heap, lanes]
sparse_object_hash(bh, h, o) ==
    LET miss == h[o].cached_hash = MinusOne
        hash == IF miss
                THEN EdgeGeneric_HashWithBase(bh["SparseObject"], h[o].items)
                ELSE h[o].cached_hash
    IN  [hash |-> hash, heap |-> [h EXCEPT ![o].cached_hash = hash],
         lanes |-> IF miss THEN HashLanes(h[o].items) ELSE 0]

\* Containers ever allocated: a deallocated one keeps its address.
MaxCached == 1

\* A hashable element and an unhashable one (a list).
CacheElems == {PyInt(1), PyList(1)}

\* The elements handed to a constructor: two for an Object or SparseObject
\* of the registered shapes, up to two for an Array or a Set.
CacheInputs(kind) ==
    IF kind \in {"Object", "SparseObject"} THEN [1..2 -> CacheElems]
    ELSE UNION { [1..n -> CacheElems] : n \in 0..2 }

\* Two shapes are registered: an Object's (id, name) and a SparseObject's
\* (a, b).
InitCache ==
    /\ rev = "edgedb"
    /\ base_hash \in BaseHashChoices
    /\ descs = << EdgeRecordDesc_New("edgedb", <<"id", "name">>,
                                     ArgTuple(<<EDGE_POINTER_IS_IMPLICIT, 0>>),
                                     ArgNull).d,
                  EdgeInputShape_New(<<"a", "b">>).d >>
    /\ heap = <<>>
    /\ pools = EmptyPools
    /\ ret = NoRet

\* A container of the kind is built and filled with the values.
CacheNew(kind, values) ==
    /\ \E r \in {CASE kind = "Object" -> EdgeObject_New(rev, heap, pools, descs, 1)
                  [] kind = "SparseObject" ->
                         EdgeSparseObject_New(heap, pools, descs, 2)
                  [] kind = "Array" -> array_new(heap, pools, values)
                  [] OTHER -> set_tp_new(heap, values) @@ [pools |-> pools]} :
           /\ r.err = "none"
           /\ heap' = IF kind \in {"Object", "SparseObject"}
                      THEN SetItems(r.heap, r.o, values) ELSE r.heap
           /\ pools' = r.pools
           /\ ret' = [NoRet EXCEPT !.op = "new", !.key = kind, !.o = r.o,
                                   !.size = Len(values)]
    /\ UNCHANGED <<rev, base_hash, descs>>

\* EdgeSet_SetItem(o, pos, el) on a Set: the one container whose elements
\* can be replaced after it was built.
CacheSetItem(o, pos, el) ==
    /\ \E r \in {EdgeSet_SetItem(heap, o, pos, el)} :
           /\ heap' = r.heap
           /\ ret' = [NoRet EXCEPT !.op = "setitem", !.a = o, !.pos = pos,
                                   !.err = r.err]
    /\ UNCHANGED <<rev, base_hash, descs, pools>>

\* hash(o)
CacheHash(o) ==
    /\ \E r \in {CASE heap[o].kind = "Object" -> object_hash(base_hash, heap, o)
                  [] heap[o].kind = "SparseObject" ->
                         sparse_object_hash(base_hash, heap, o)
                  [] heap[o].kind = "Array" -> array_hash(base_hash, heap, o)
                  [] OTHER -> set_hash(base_hash, heap, o)} :
           /\ heap' = r.heap
           /\ ret' = [NoRet EXCEPT !.op = "hash", !.a = o, !.h = r.hash,
                                   !.pre = heap[o].cached_hash, !.lanes = r.lanes,
                                   !.err = IF r.hash = MinusOne THEN "raised"
                                           ELSE "none"]
    /\ UNCHANGED <<rev, base_hash, descs, pools>>

\* The last reference to o goes away.
CacheDealloc(o) ==
    /\ \E r \in {CASE heap[o].kind = "Object" -> object_dealloc(heap, pools, o)
                  [] heap[o].kind = "SparseObject" ->
                         sparse_object_dealloc(heap, pools, o)
                  [] heap[o].kind = "Array" -> array_dealloc(heap, pools, o)
                  [] OTHER -> set_dealloc(heap, pools, o)} :
           /\ heap' = r.heap
           /\ pools' = r.pools
    /\ ret' = [NoRet EXCEPT !.op = "dealloc", !.a = o]
    /\ UNCHANGED <<rev, base_hash, descs>>

LiveCached == {o \in 1..Len(heap) : heap[o].st = "live"}

NextCache ==
    \/ \E kind \in HashedKinds : \E values \in CacheInputs(kind) :
         CacheNew(kind, values) /\ Len(heap') <= MaxCached
    \/ \E o \in Live("Set"), pos \in 0..1, el \in CacheElems :
         CacheSetItem(o, pos, el)
    \/ \E o \in LiveCached : CacheHash(o)
    \/ \E o \in LiveCached : CacheDealloc(o)

SpecCache == InitCache /\ [][NextCache]_vars

\* C9: a container starts with its hash uncomputed and only its own hash
\* call changes that.  A hash call that finds a stored hash returns it and
\* hashes no element; one that finds none hashes the elements: if one of them
\* fails the call fails and nothing is stored, otherwise the result, which is
\* never the uncomputed marker, is returned and stored.
C9_HashComputedOnceAndKept ==
    [][ /\ \A o \in 1..Len(heap') :
             (heap'[o].st = "live" /\ (o > Len(heap) \/ heap[o].st # "live")) =>
                 heap'[o].cached_hash = MinusOne
        /\ \A o \in 1..Len(heap) :
             (/\ heap[o].st = "live" /\ heap'[o].st = "live"
              /\ ~(ret'.op = "hash" /\ ret'.a = o)) =>
                 heap'[o].cached_hash = heap[o].cached_hash
        /\ ret'.op = "hash" =>
             LET o == ret'.a
                 stored == heap[o].cached_hash
                 els == heap[o].items
             IN  /\ heap'[o].items = els
                 /\ IF stored # MinusOne
                    THEN /\ ret'.err = "none" /\ ret'.h = stored
                         /\ ret'.lanes = 0
                         /\ heap'[o].cached_hash = stored
                    ELSE IF HashFails(els)
                    THEN /\ ret'.err = "raised" /\ ret'.lanes > 0
                         /\ heap'[o].cached_hash = MinusOne
                    ELSE /\ ret'.err = "none" /\ ret'.h # MinusOne
                         /\ ret'.lanes = Len(els)
                         /\ heap'[o].cached_hash = ret'.h
      ]_vars

\* A Set was hashed, then given an unhashable element: the next hash call
\* returned the stored hash and did not touch the elements.
C9_Witness ==
    /\ ret.op = "hash" /\ heap[ret.a].kind = "Set"
    /\ ret.pre # MinusOne /\ ret.h = ret.pre /\ ret.err = "none"
    /\ HashFails(heap[ret.a].items)

(***************************************************************************)
(* Field access: object_getattr and object_getitem (both revisions), and   *)
(* the Link and LinkSet views of the edgedb revision (link.c, linkset.c).  *)
(* A Link is a heap record with the extra fields name, source and target,  *)
(* a LinkSet one with name, source and targets.                            *)
(***************************************************************************)
\* datatypes.h:122, 146, 190: Py_TYPE(d) == &Edge<Kind>_Type
EdgeKind_Check(h, x, kind) == x.t = "ptr" /\ h[x.v].kind = kind

\* PyObject_GenericGetAttr on a name that the type and the instance do not
\* define.
PyObject_GenericGetAttr(name) == [err |-> "AttributeError", val |-> PyNULL]

\* An attribute lookup that asks the descriptor nothing: the variant C11
\* rules out.
object_getattr_Generic(rv, h, ds, o, name) ==
    PyObject_GenericGetAttr(name)

\* edgedb/datatypes/object.c:189-213 and gel/datatypes/object.c:157-190:
\* [err, val]
object_getattr(rv, h, ds, o, name) ==
    LET l == EdgeRecordDesc_Lookup(ds[h[o].desc], name)
        slot == [err |-> "none", val |-> h[o].items[l.pos + 1]]
    IN  CASE l.res = "L_NOT_FOUND" ->
               IF rv = "gel" /\ name = "__dataclass_fields__"
               THEN [err |-> "none",
                     val |-> [t |-> "dataclass_fields", v |-> h[o].desc]]
               ELSE PyObject_GenericGetAttr(name)
          [] l.res = "L_LINKPROP" ->
               IF rv = "gel" THEN slot ELSE PyObject_GenericGetAttr(name)
          [] OTHER -> slot

\* A constructor that takes any source and target: the variant C15 rules
\* out.
EdgeLink_New_Unchecked(h, name, source, target) ==
    [err |-> "none", val |-> PyPtr(Len(h) + 1),
     heap |-> Append(h, [kind |-> "Link", items |-> <<>>, desc |-> 0,
                         cached_hash |-> MinusOne, st |-> "live",
                         name |-> name, source |-> source,
                         target |-> target])]

\* link.c:29-68: [err, val, heap]
EdgeLink_New(h, name, source, target) ==
    IF ~EdgeKind_Check(h, source, "Object")
    THEN [err |-> "TypeError", val |-> PyNULL, heap |-> h]
    ELSE IF ~EdgeKind_Check(h, target, "Object")
    THEN [err |-> "TypeError", val |-> PyNULL, heap |-> h]
    ELSE [err |-> "none", val |-> PyPtr(Len(h) + 1),
          heap |-> Append(h, [kind |-> "Link", items |-> <<>>, desc |-> 0,
                              cached_hash |-> MinusOne, st |-> "live",
                              name |-> name, source |-> source,
                              target |-> target])]

\* linkset.c:29-69: [err, val, heap]
EdgeLinkSet_New(h, name, source, targets) ==
    IF ~EdgeKind_Check(h, source, "Object")
    THEN [err |-> "TypeError", val |-> PyNULL, heap |-> h]
    ELSE IF ~EdgeKind_Check(h, targets, "Set")
    THEN [err |-> "TypeError", val |-> PyNULL, heap |-> h]
    ELSE [err |-> "none", val |-> PyPtr(Len(h) + 1),
          heap |-> Append(h, [kind |-> "LinkSet", items |-> <<>>, desc |-> 0,
                              cached_hash |-> MinusOne, st |-> "live",
                              name |-> name, source |-> source,
                              targets |-> targets])]

\* PyUnicode_Tailmatch(name, "@", 0, 1, -1) on the names used here.
StartsWithAt(name) == name \in {"@since", "@missing"}

\* A subscript that hands out every field's slot: the variant C12 rules out.
object_getitem_AnySlot(rv, h, ds, o, name) ==
    LET l == EdgeRecordDesc_Lookup(ds[h[o].desc], name)
    IN  IF l.res = "L_NOT_FOUND"
        THEN [err |-> "KeyError", val |-> PyNULL, heap |-> h]
        ELSE [err |-> "none", val |-> h[o].items[l.pos + 1], heap |-> h]

\* edgedb/datatypes/object.c:215-258 and gel/datatypes/object.c:192-252:
\* [err, val, heap]
object_getitem(rv, h, ds, o, name) ==
    LET l == EdgeRecordDesc_Lookup(ds[h[o].desc], name)
        val == h[o].items[l.pos + 1]
        Raise(e) == [err |-> e, val |-> PyNULL, heap |-> h]
    IN  IF rv = "gel"
        THEN CASE l.res = "L_PROPERTY" -> Raise("TypeError")
               [] l.res = "L_LINKPROP" ->
                    [err |-> "none", val |-> val, heap |-> h]
               [] l.res = "L_NOT_FOUND" ->
                    IF PyUnicode_CheckExact(name) /\ StartsWithAt(name)
                    THEN Raise("KeyError") ELSE Raise("TypeError")
               [] OTHER -> Raise("TypeError")
        ELSE CASE l.res = "L_PROPERTY" -> Raise("TypeError")
               [] l.res \in {"L_LINKPROP", "L_NOT_FOUND"} -> Raise("KeyError")
               [] OTHER ->
                    IF EdgeKind_Check(h, val, "Set")
                    THEN EdgeLinkSet_New(h, name, PyPtr(o), val)
                    ELSE IF val = Py_None
                    THEN [err |-> "none", val |-> Py_None, heap |-> h]
                    ELSE EdgeLink_New(h, name, PyPtr(o), val)

\* A lookup that asks the target's descriptor first: the variant C13 rules
\* out.
link_getattr_DescFirst(h, ds, o, name) ==
    LET target == PtrAddr(h[o].target)
        l == EdgeRecordDesc_Lookup(ds[h[target].desc], name)
    IN  IF l.res # "L_NOT_FOUND"
        THEN [err |-> "none", val |-> h[target].items[l.pos + 1]]
        ELSE IF name = "source" THEN [err |-> "none", val |-> h[o].source]
        ELSE IF name = "target" THEN [err |-> "none", val |-> h[o].target]
        ELSE PyObject_GenericGetAttr(name)

\* link.c:259-298: [err, val]
link_getattr(h, ds, o, name) ==
    LET target == PtrAddr(h[o].target)
        l == EdgeRecordDesc_Lookup(ds[h[target].desc], name)
    IN  IF name = "source" THEN [err |-> "none", val |-> h[o].source]
        ELSE IF name = "target" THEN [err |-> "none", val |-> h[o].target]
        ELSE IF l.res = "L_LINKPROP"
        THEN [err |-> "none", val |-> h[target].items[l.pos + 1]]
        ELSE PyObject_GenericGetAttr(name)

\* link.c:203-256.  The three fields are compared with
\* PyObject_RichCompareBool, which answers for one and the same object
\* without calling its comparison; two different Objects are compared by
\* object_richcompare.
link_richcompare(h, ds, v, w, op) ==
    LET Same(a, b) ==
            IF a = b THEN 1
            ELSE IF EdgeKind_Check(h, a, "Object") /\ EdgeKind_Check(h, b, "Object")
            THEN LET r == object_richcompare(h, ds, a.v, b.v, "EQ")
                 IN  CASE r = "True" -> 1 [] r = "False" -> 0 [] OTHER -> -1
            ELSE 0
        is_eq == IF h[v].name # h[w].name THEN 0
                 ELSE IF Same(h[v].source, h[w].source) # 1
                 THEN Same(h[v].source, h[w].source)
                 ELSE Same(h[v].target, h[w].target)
    IN  IF op \notin {"EQ", "NE"} \/ h[w].kind # "Link" THEN "NotImplemented"
        ELSE IF is_eq < 0 THEN "NULL"
        ELSE IF (is_eq = 1) = (op = "EQ") THEN "True" ELSE "False"

\* set.c:64-71: PyList_GetItem(o->els, pos), pos 0-based.
EdgeSet_GetItem(h, o, pos) ==
    IF pos < 0 \/ pos >= Len(h[o].items)
    THEN [err |-> "IndexError", val |-> PyNULL]
    ELSE [err |-> "none", val |-> h[o].items[pos + 1]]

\* linkset.c:279-284
linkset_length(h, o) == Len(h[PtrAddr(h[o].targets)].items)

\* A subscript that answers with the target itself: the variant C14 rules
\* out.
linkset_getitem_Target(h, o, i) ==
    LET target == EdgeSet_GetItem(h, PtrAddr(h[o].targets), i)
    IN  [err |-> target.err, val |-> target.val, heap |-> h]

\* linkset.c:287-298: [err, val, heap]
linkset_getitem(h, o, i) ==
    LET target == EdgeSet_GetItem(h, PtrAddr(h[o].targets), i)
    IN  IF target.err # "none"
        THEN [err |-> target.err, val |-> PyNULL, heap |-> h]
        ELSE EdgeLink_New(h, h[o].name, h[o].source, target.val)

(***************************************************************************)
(* Field access on decoded Objects.  The decoder has registered one shape  *)
(* and built a target Object (address 1), a Set of targets (address 2) and *)
(* a source Object (address 3) whose link field holds the target, the Set, *)
(* None or a scalar.  The caller reads attributes and subscripts; in the   *)
(* edgedb revision it also builds and reads Links and LinkSets.            *)
(***************************************************************************)
MaxLinks == 3
MaxTargets == 2

\* The shape: an implicit id, a property, a link, and two link properties,
\* one of them named like the Link attribute "target".
LinkShape ==
    [names |-> <<"id", "name", "friends", "@since", "target">>,
     flags |-> ArgTuple(<<EDGE_POINTER_IS_IMPLICIT, 0, EDGE_POINTER_IS_LINK,
                          EDGE_POINTER_IS_LINKPROP, EDGE_POINTER_IS_LINKPROP>>)]

AccessKeys ==
    {"name", "friends", "@since", "target", "source", "missing", "@missing",
     "__dataclass_fields__"}

\* What a caller passes to EdgeLink_New for the source (the source Object,
\* None) and for the target (the target Object, the Set), and what is
\* appended to the Set of targets.
LinkSources == {PyPtr(3), Py_None}
LinkTargets == {PyPtr(1), PyPtr(2)}

InitLink ==
    /\ rev \in {"edgedb", "gel"}
    /\ base_hash = BaseHashSmall
    /\ descs = <<EdgeRecordDesc_New(rev, LinkShape.names, LinkShape.flags,
                                    ArgNull).d>>
    /\ pools = EmptyPools
    /\ \E link \in {PyPtr(1), PyPtr(2), Py_None, PyInt(7)} :
         LET target  == EdgeObject_New(rev, <<>>, EmptyPools, descs, 1)
             h1      == SetItems(target.heap, target.o,
                                 <<PyInt(1), PyInt(11), Py_None, PyInt(111),
                                   PyInt(1111)>>)
             targets == set_tp_new(h1, <<PyPtr(target.o)>>)
             source  == EdgeObject_New(rev, targets.heap, EmptyPools, descs, 1)
         IN  heap = SetItems(source.heap, source.o,
                             <<PyInt(3), PyInt(33), link, PyInt(333),
                               PyInt(3333)>>)
    /\ ret = NoRet

\* O.name
ObjectGetAttr(o, name) ==
    /\ \E r \in {object_getattr(rev, heap, descs, o, name)} :
         ret' = [NoRet EXCEPT !.op = "object_getattr", !.a = o, !.key = name,
                              !.val = r.val, !.err = r.err]
    /\ UNCHANGED <<rev, base_hash, descs, heap, pools>>

\* O[name]
ObjectGetItem(o, name) ==
    /\ \E r \in {object_getitem(rev, heap, descs, o, name)} :
         /\ heap' = r.heap
         /\ ret' = [NoRet EXCEPT !.op = "object_getitem", !.a = o,
                                 !.key = name, !.val = r.val, !.err = r.err]
    /\ UNCHANGED <<rev, base_hash, descs, pools>>

\* EdgeLink_New(name, source, target)
LinkNew(name, source, target) ==
    /\ rev = "edgedb"
    /\ \E r \in {EdgeLink_New(heap, name, source, target)} :
         /\ heap' = r.heap
         /\ ret' = [NoRet EXCEPT !.op = "Link_New", !.a = source, !.b = target,
                                 !.key = name, !.val = r.val, !.err = r.err]
    /\ UNCHANGED <<rev, base_hash, descs, pools>>

\* L.name
LinkGetAttr(l, name) ==
    /\ \E r \in {link_getattr(heap, descs, l, name)} :
         ret' = [NoRet EXCEPT !.op = "link_getattr", !.a = l, !.key = name,
                              !.val = r.val, !.err = r.err]
    /\ UNCHANGED <<rev, base_hash, descs, heap, pools>>

\* v == w and v != w on two Links
LinkRichCompare(v, w, op) ==
    /\ \E r \in {link_richcompare(heap, descs, v, w, op)} :
         ret' = [NoRet EXCEPT !.op = "link_richcompare", !.a = v, !.b = w,
                              !.key = op, !.val = r,
                              !.err = IF r = "NULL" THEN "raised" ELSE "none"]
    /\ UNCHANGED <<rev, base_hash, descs, heap, pools>>

\* len(LS)
LinkSetLen(ls) ==
    /\ ret' = [NoRet EXCEPT !.op = "linkset_length", !.a = ls,
                            !.size = linkset_length(heap, ls)]
    /\ UNCHANGED <<rev, base_hash, descs, heap, pools>>

\* LS[i]: PySequence_GetItem adds the length to a negative index and then
\* calls sq_item, which is linkset_getitem.
LinkSetGetItem(ls, i) ==
    /\ \E r \in {linkset_getitem(heap, ls,
                     IF i < 0 THEN i + linkset_length(heap, ls) ELSE i)} :
         /\ heap' = r.heap
         /\ ret' = [NoRet EXCEPT !.op = "linkset_getitem", !.a = ls,
                                 !.pos = i, !.val = r.val, !.err = r.err]
    /\ UNCHANGED <<rev, base_hash, descs, pools>>

NextLink ==
    \/ \E o \in Live("Object"), name \in AccessKeys : ObjectGetAttr(o, name)
    \/ \E o \in Live("Object"), name \in AccessKeys :
         ObjectGetItem(o, name) /\ Len(heap') <= 3 + MaxLinks
    \/ \E source \in LinkSources, target \in LinkTargets :
         LinkNew("friends", source, target) /\ Len(heap') <= 3 + MaxLinks
    \/ \E l \in Live("Link"), name \in AccessKeys : LinkGetAttr(l, name)
    \/ \E v \in Live("Link"), w \in Live("Link"), op \in {"EQ", "NE", "LT"} :
         LinkRichCompare(v, w, op)
    \/ \E ls \in Live("LinkSet") : LinkSetLen(ls)
    \/ \E ls \in Live("LinkSet"), i \in -2..2 :
         LinkSetGetItem(ls, i) /\ Len(heap') <= 3 + MaxLinks
    \/ \E o \in Live("Set"), el \in LinkSources :
         Len(heap[o].items) < MaxTargets /\ SetAppend(o, el)

SpecLink == InitLink /\ [][NextLink]_vars

C12_SubscriptAsStated ==
    [][ ret'.op = "object_getitem" =>
          LET o == ret'.a
              l == EdgeRecordDesc_Lookup(descs[heap[o].desc], ret'.key)
              slot == heap[o].items[l.pos + 1]
          IN  /\ l.res = "L_PROPERTY" => ret'.err = "TypeError"
              /\ l.res \in {"L_LINK", "L_LINKPROP"} =>
                     ret'.err = "none" /\ ret'.val = slot
              /\ l.res = "L_NOT_FOUND" =>
                     ret'.err = IF StartsWithAt(ret'.key) THEN "KeyError"
                                ELSE "TypeError"
              /\ descs' = descs /\ heap'[o] = heap[o]
      ]_vars

\* C12: O[k] is a type error for a Property in both revisions.  In the gel
\* revision it is the slot value for a LinkProp, a type error for a Link,
\* and for a name the descriptor does not have a key error when k starts
\* with "@" and a type error otherwise.  In the edgedb revision it is a key
\* error for a LinkProp and for every name the descriptor does not have,
\* and for a Link a view of the field: a new LinkSet over it when it holds
\* a Set, None when it holds None, and otherwise what EdgeLink_New(k, O,
\* value) gives: a new Link when the value is an Object, a type error when
\* it is not.  No subscript changes O, its descriptor or any container that
\* existed before.
C12_SubscriptByRevision ==
    [][ ret'.op = "object_getitem" =>
          LET o == ret'.a
              l == EdgeRecordDesc_Lookup(descs[heap[o].desc], ret'.key)
              slot == heap[o].items[l.pos + 1]
              new == Len(heap) + 1
              Raises(e) == ret'.err = e /\ ret'.val = PyNULL /\ heap' = heap
              Returns(v) == ret'.err = "none" /\ ret'.val = v /\ heap' = heap
              View(kind) ==
                  /\ ret'.err = "none" /\ ret'.val = PyPtr(new)
                  /\ Len(heap') = new
                  /\ heap'[new].kind = kind /\ heap'[new].st = "live"
                  /\ heap'[new].name = ret'.key
                  /\ heap'[new].source = PyPtr(o)
          IN  /\ descs' = descs
              /\ \A a \in 1..Len(heap) : heap'[a] = heap[a]
              /\ CASE l.res = "L_PROPERTY" -> Raises("TypeError")
                   [] l.res = "L_LINKPROP" ->
                        IF rev = "gel" THEN Returns(slot) ELSE Raises("KeyError")
                   [] l.res = "L_NOT_FOUND" ->
                        IF rev = "gel" /\ ~StartsWithAt(ret'.key)
                        THEN Raises("TypeError") ELSE Raises("KeyError")
                   [] l.res = "L_LINK" ->
                        IF rev = "gel" THEN Raises("TypeError")
                        ELSE IF EdgeKind_Check(heap, slot, "Set")
                        THEN View("LinkSet") /\ heap'[new].targets = slot
                        ELSE IF slot = Py_None THEN Returns(Py_None)
                        ELSE IF EdgeKind_Check(heap, slot, "Object")
                        THEN View("Link") /\ heap'[new].target = slot
                        ELSE Raises("TypeError")
      ]_vars

\* The edgedb revision was asked for O[k] with k a Link whose field holds an
\* Object, and answered with a Link from O to that Object.
C12_Witness ==
    /\ rev = "edgedb" /\ ret.op = "object_getitem" /\ ret.err = "none"
    /\ EdgeRecordDesc_Lookup(descs[heap[ret.a].desc], ret.key).res = "L_LINK"
    /\ EdgeKind_Check(heap, ret.val, "Link")
    /\ heap[ret.val.v].source = PyPtr(ret.a)
    /\ heap[ret.val.v].target = heap[ret.a].items[3]
    /\ ret.val # heap[ret.a].items[3]

\* C13: L.n on a Link L is L's source for n = "source" and L's target for
\* n = "target", whatever fields the target's descriptor has.  For any other
\* n it is the target's slot value of n exactly when the target's descriptor
\* classifies n as a LinkProp; a Property, a Link or an absent name ends in
\* the ordinary attribute-not-found result and shows no value of the target.
C13_LinkAttribute ==
    ret.op = "link_getattr" =>
        LET target == PtrAddr(heap[ret.a].target)
            l == EdgeRecordDesc_Lookup(descs[heap[target].desc], ret.key)
        IN  IF ret.key = "source"
            THEN ret.err = "none" /\ ret.val = heap[ret.a].source
            ELSE IF ret.key = "target"
            THEN ret.err = "none" /\ ret.val = heap[ret.a].target
            ELSE IF l.res = "L_LINKPROP"
            THEN ret.err = "none" /\ ret.val = heap[target].items[l.pos + 1]
            ELSE ret.err = "AttributeError" /\ ret.val = PyNULL

\* L.target was read on a Link whose target has a LinkProp field named
\* "target", and the answer was the target Object, not that field.
C13_Witness ==
    /\ ret.op = "link_getattr" /\ ret.key = "target" /\ ret.err = "none"
    /\ LET target == PtrAddr(heap[ret.a].target)
           l == EdgeRecordDesc_Lookup(descs[heap[target].desc], "target")
       IN  /\ l.res = "L_LINKPROP"
           /\ ret.val = heap[ret.a].target
           /\ ret.val # heap[target].items[l.pos + 1]

C15_LinkNeedsObjects ==
    [][ /\ ret'.op = "Link_New" =>
             IF /\ EdgeKind_Check(heap, ret'.a, "Object")
                /\ EdgeKind_Check(heap, ret'.b, "Object")
             THEN /\ ret'.err = "none" /\ ret'.val = PyPtr(Len(heap) + 1)
                  /\ Len(heap') = Len(heap) + 1
                  /\ \A a \in 1..Len(heap) : heap'[a] = heap[a]
                  /\ heap'[Len(heap')].kind = "Link"
                  /\ heap'[Len(heap')].name = ret'.key
                  /\ heap'[Len(heap')].source = ret'.a
                  /\ heap'[Len(heap')].target = ret'.b
             ELSE /\ ret'.err = "TypeError" /\ ret'.val = PyNULL
                  /\ heap' = heap
        /\ (/\ ret'.op = "object_getitem" /\ rev = "edgedb"
            /\ EdgeRecordDesc_Lookup(descs[heap[ret'.a].desc], ret'.key).res
                 = "L_LINK") =>
               LET val == heap[ret'.a].items[
                              EdgeRecordDesc_Lookup(descs[heap[ret'.a].desc],
                                                    ret'.key).pos + 1]
               IN  (/\ ~EdgeKind_Check(heap, val, "Object")
                    /\ ~EdgeKind_Check(heap, val, "Set")
                    /\ val # Py_None) =>
                       /\ ret'.err = "TypeError" /\ ret'.val = PyNULL
                       /\ heap' = heap
        /\ \A a \in 1..Len(heap') :
             heap'[a].kind = "Link" =>
                 /\ EdgeKind_Check(heap', heap'[a].source, "Object")
                 /\ EdgeKind_Check(heap', heap'[a].target, "Object")
      ]_vars

\* O[k] was asked of the edgedb revision for a Link field that holds a
\* scalar: the call raised a type error.
C15_Witness ==
    /\ rev = "edgedb" /\ ret.op = "object_getitem" /\ ret.err = "TypeError"
    /\ EdgeRecordDesc_Lookup(descs[heap[ret.a].desc], ret.key).res = "L_LINK"
    /\ heap[ret.a].items[3] = PyInt(7)

(***************************************************************************)
(* namedtuple.c (both revisions).  A derived type is named by the index of *)
(* its descriptor in descs; 0 is the base type EdgeNamedTuple_Type.        *)
(* Keyword arguments are NULL or a dict, written in insertion order as a   *)
(* sequence of [k, v] records with distinct keys.                          *)
(***************************************************************************)
\* PyDict_GetItem(kwargs, key): NULL when the key is missing.
PyDict_GetItem(kwargs, key) ==
    LET hits == {i \in 1..Len(kwargs.seq) : kwargs.seq[i].k = key}
    IN  IF hits = {} THEN PyNULL ELSE kwargs.seq[CHOOSE i \in hits : TRUE].v

\* namedtuple.c:39-75 (gel/datatypes/namedtuple.c:42-105): [err, o, heap,
\* pools]
EdgeNamedTuple_New(h, p, ds, type) ==
    IF type = 0 \/ ds[type].type # "RecordDesc" THEN Failed("SystemError", h, p)
    ELSE IF EdgeRecordDesc_GetSize(ds[type]) > EDGE_MAX_TUPLE_SIZE
    THEN Failed("ValueError", h, p)
    ELSE LET r == EDGE_NEW_WITH_FREELIST(h, p, "NamedTuple",
                                         EdgeRecordDesc_GetSize(ds[type]))
         IN  IF r.err # "none" THEN r
             ELSE [r EXCEPT !.heap[r.o].desc = type]

\* namedtuple.c:78-85
namedtuple_dealloc(h, p, o) ==
    EDGE_DEALLOC_WITH_FREELIST(h, p, "NamedTuple", o)

\* A constructor that fills every slot by keyword and ignores the positional
\* arguments: the variant C16 rules out.
namedtuple_derived_new_KeywordsOnly(h, p, ds, type, args, kwargs) ==
    LET r == EdgeNamedTuple_New(h, p, ds, type)
        size == EdgeRecordDesc_GetSize(ds[type])
        Val(i) == IF kwargs.some THEN PyDict_GetItem(kwargs, ds[type].names[i])
                  ELSE PyNULL
    IN  IF r.err # "none" THEN r
        ELSE IF \E i \in 1..size : Val(i) = PyNULL
        THEN LET d == namedtuple_dealloc(r.heap, r.pools, r.o)
             IN  Failed("ValueError", d.heap, d.pools)
        ELSE [r EXCEPT !.heap = SetItems(@, r.o, [i \in 1..size |-> Val(i)])]

\* namedtuple.c:199-273 (gel/datatypes/namedtuple.c:238-312): [err, o, heap,
\* pools].  Every failure after the allocation ends in Py_CLEAR(o), which
\* runs namedtuple_dealloc on the tuple as filled so far.
namedtuple_derived_new(h, p, ds, type, args, kwargs) ==
    LET r == EdgeNamedTuple_New(h, p, ds, type)
        size == EdgeRecordDesc_GetSize(ds[type])
        args_size == Len(args)
        Fail(e) == LET d == namedtuple_dealloc(r.heap, r.pools, r.o)
                   IN  Failed(e, d.heap, d.pools)
        Val(i) == IF i <= args_size THEN args[i]
                  ELSE PyDict_GetItem(kwargs, ds[type].names[i])
    IN  IF r.err # "none" THEN r
        ELSE IF args_size > size THEN Fail("ValueError")
        ELSE IF ~kwargs.some
        THEN IF size = args_size
             THEN [r EXCEPT !.heap = SetItems(@, r.o, args)]
             ELSE Fail("ValueError")
        ELSE IF Len(kwargs.seq) > size - args_size THEN Fail("ValueError")
        ELSE IF \E i \in (args_size + 1)..size : Val(i) = PyNULL
        THEN Fail("ValueError")
        ELSE [r EXCEPT !.heap = SetItems(@, r.o, [i \in 1..size |-> Val(i)])]

\* A constructor that builds the empty tuple for no keywords: the variant
\* C17 rules out.
namedtuple_new_AllowEmpty(rv, h, p, ds, type, args, kwargs) ==
    LET keys_tup == [i \in 1..Len(kwargs.seq) |-> kwargs.seq[i].k]
        desc == EdgeRecordDesc_New(rv, keys_tup, ArgNull, ArgNull)
        ds1 == Append(ds, desc.d)
        r == EdgeNamedTuple_New(h, p, ds1, Len(ds1))
    IN  IF desc.err # "none" \/ r.err # "none"
        THEN Failed("ValueError", h, p) @@ [descs |-> ds]
        ELSE [r EXCEPT !.heap = SetItems(@, r.o,
                  [i \in 1..Len(keys_tup) |->
                      PyDict_GetItem(kwargs, keys_tup[i])])]
             @@ [descs |-> ds1]

\* namedtuple.c:101-196 (gel/datatypes/namedtuple.c:141-235): [err, o, heap,
\* pools, descs].  The descriptor and the derived type that a failed call
\* built are released before it returns.
namedtuple_new(rv, h, p, ds, type, args, kwargs) ==
    LET size == Len(kwargs.seq)
        keys_tup == [i \in 1..size |-> kwargs.seq[i].k]
        desc == EdgeRecordDesc_New(rv, keys_tup, ArgNull, ArgNull)
        ds1 == Append(ds, desc.d)
        r == EdgeNamedTuple_New(h, p, ds1, Len(ds1))
    IN  IF type # 0
        THEN IF rv = "gel"
             THEN namedtuple_derived_new(h, p, ds, type, args, kwargs)
                  @@ [descs |-> ds]
             ELSE Failed("SystemError", h, p) @@ [descs |-> ds]
        ELSE IF Len(args) > 0 THEN Failed("SystemError", h, p) @@ [descs |-> ds]
        ELSE IF ~kwargs.some \/ size = 0
        THEN Failed("ValueError", h, p) @@ [descs |-> ds]
        ELSE IF desc.err # "none" THEN Failed(desc.err, h, p) @@ [descs |-> ds]
        ELSE IF r.err # "none" THEN Failed(r.err, h, p) @@ [descs |-> ds]
        ELSE [r EXCEPT !.heap = SetItems(@, r.o,
                  [i \in 1..size |-> PyDict_GetItem(kwargs, keys_tup[i])])]
             @@ [descs |-> ds1]

(***************************************************************************)
(* NamedTuples: the decoder has registered an empty shape and the shape    *)
(* (a, b); the caller builds ad hoc NamedTuples from keywords, builds      *)
(* NamedTuples of the derived types, and drops them.                       *)
(***************************************************************************)
MaxNamed == 1
MaxAdHoc == 1

\* Positional arguments: none, or 1, 2, 3 in that order.
NamedArgs == {SubSeq(<<PyInt(1), PyInt(2), PyInt(3)>>, 1, k) : k \in 0..3}

\* The keyword a has the value 11, b 12 and every other one 13; one dict has
\* a keyword whose name is an instance of a subclass of str.  BigKwargs is a
\* dict of EDGE_MAX_TUPLE_SIZE + 1 keywords.
BigKwargs ==
    ArgTuple(SubSeq([i \in 1..(EDGE_MAX_TUPLE_SIZE + 1) |->
                        [k |-> ToString(i), v |-> PyInt(i)]],
                    1, EDGE_MAX_TUPLE_SIZE + 1))

NamedKwargs ==
    LET Kw(k) == [k |-> k, v |-> PyInt(CASE k = "a" -> 11 [] k = "b" -> 12
                                         [] OTHER -> 13)]
    IN  {ArgNull, BigKwargs}
        \cup {ArgTuple([i \in 1..Len(ks) |-> Kw(ks[i])]) :
                ks \in {<<>>, <<"a">>, <<"b">>, <<"a", "b">>, <<"b", "a">>,
                        <<"b", "c">>, <<"a", NonStrName>>}}

\* What ret keeps of a keyword dict: its size, and its items unless it is
\* the big one.
Given(kwargs) ==
    [some |-> kwargs.some, size |-> Len(kwargs.seq),
     seq |-> IF Len(kwargs.seq) > 3 THEN <<>> ELSE kwargs.seq]

InitNamed ==
    /\ rev \in {"edgedb", "gel"}
    /\ base_hash = BaseHashSmall
    /\ descs = <<EdgeRecordDesc_New(rev, <<>>, ArgNull, ArgNull).d,
                 EdgeRecordDesc_New(rev, <<"a", "b">>, ArgNull, ArgNull).d>>
    /\ heap = <<>>
    /\ pools = EmptyPools
    /\ ret = [NoRet EXCEPT !.a = <<>>, !.b = Given(ArgNull)]

\* NamedTuple(*args, **kwargs) on the base type: tp_new is namedtuple_new.
NamedTupleNew(args, kwargs) ==
    /\ \E r \in {namedtuple_new(rev, heap, pools, descs, 0, args, kwargs)} :
         /\ heap' = r.heap /\ pools' = r.pools /\ descs' = r.descs
         /\ ret' = [NoRet EXCEPT !.op = "namedtuple_new", !.a = args,
                                 !.b = Given(kwargs), !.err = r.err,
                                 !.o = r.o]
    /\ UNCHANGED <<rev, base_hash>>

\* T(*args, **kwargs) on the derived type of descs[type]: tp_new is
\* namedtuple_derived_new in the edgedb revision (namedtuple.c:347) and the
\* inherited namedtuple_new in the gel revision.
NamedTupleDerivedNew(type, args, kwargs) ==
    /\ \E r \in {IF rev = "gel"
                 THEN namedtuple_new(rev, heap, pools, descs, type, args, kwargs)
                 ELSE namedtuple_derived_new(heap, pools, descs, type, args,
                                             kwargs)} :
         /\ heap' = r.heap /\ pools' = r.pools
         /\ ret' = [NoRet EXCEPT !.op = "namedtuple_derived_new", !.pos = type,
                                 !.a = args, !.b = Given(kwargs),
                                 !.err = r.err, !.o = r.o]
    /\ UNCHANGED <<rev, base_hash, descs>>

\* The last reference to a NamedTuple is dropped.
NamedTupleDealloc(o) ==
    /\ \E r \in {namedtuple_dealloc(heap, pools, o)} :
         /\ heap' = r.heap /\ pools' = r.pools
    /\ ret' = [NoRet EXCEPT !.op = "namedtuple_dealloc", !.o = o,
                            !.a = <<>>, !.b = Given(ArgNull)]
    /\ UNCHANGED <<rev, base_hash, descs>>

NextNamed ==
    \/ \E args \in NamedArgs, kwargs \in NamedKwargs :
         /\ NamedTupleNew(args, kwargs)
         /\ Len(heap') <= MaxNamed /\ Len(descs') <= 2 + MaxAdHoc
    \/ \E type \in 1..Len(descs), args \in NamedArgs, kwargs \in NamedKwargs :
         NamedTupleDerivedNew(type, args, kwargs) /\ Len(heap') <= MaxNamed
    \/ \E o \in Live("NamedTuple") : NamedTupleDealloc(o)

SpecNamed == InitNamed /\ [][NextNamed]_vars

\* C16: building a NamedTuple of a derived type with n uniquely named
\* fields from k positional arguments and the keyword set K succeeds exactly
\* when k <= n and K is the set of the names at positions k..n-1; slot i
\* then holds the i-th positional argument for i < k and the keyword value
\* of name i for i >= k.  In every other case the call fails with a
\* ValueError and returns no NamedTuple.
C16_DerivedCoverage ==
    [][ ret'.op = "namedtuple_derived_new" =>
          LET names == descs[ret'.pos].names
              n == Len(names)
              args == ret'.a
              k == Len(args)
              kw == ret'.b
              big == kw.size > Len(kw.seq)
              K == IF big THEN {} ELSE {kw.seq[i].k : i \in 1..Len(kw.seq)}
              o == ret'.o
          IN  IF k <= n /\ ~big /\ K = {names[i] : i \in (k + 1)..n}
              THEN /\ ret'.err = "none"
                   /\ heap'[o].kind = "NamedTuple" /\ heap'[o].st = "live"
                   /\ heap'[o].desc = ret'.pos
                   /\ heap'[o].items =
                        [i \in 1..n |-> IF i <= k THEN args[i]
                                        ELSE PyDict_GetItem(kw, names[i])]
              ELSE /\ ret'.err = "ValueError" /\ o = 0
                   /\ \A a \in 1..Len(heap') :
                        heap'[a].st = "live" =>
                            a <= Len(heap) /\ heap'[a] = heap[a]
      ]_vars

\* A NamedTuple of the shape (a, b) was built from one positional argument
\* and the keyword b.
C16_Witness ==
    /\ ret.op = "namedtuple_derived_new" /\ ret.err = "none"
    /\ descs[ret.pos].names = <<"a", "b">>
    /\ Len(ret.a) = 1
    /\ heap[ret.o].items = <<PyInt(1), PyInt(12)>>

\* C17 as stated: NamedTuple(**kwargs) on the base type fails with a
\* ValueError when there is no keyword, creating no descriptor and no tuple
\* and leaving the free lists as they were, and succeeds for one keyword or
\* more, with one slot per keyword, in keyword order, holding its value.
C17_AdHocAsStated ==
    [][ (ret'.op = "namedtuple_new" /\ ret'.a = <<>>) =>
          LET kw == ret'.b
              big == kw.size > Len(kw.seq)
              size == kw.size
              o == ret'.o
          IN  IF size = 0
              THEN /\ ret'.err = "ValueError" /\ o = 0
                   /\ heap' = heap /\ pools' = pools /\ descs' = descs
              ELSE /\ ret'.err = "none"
                   /\ heap'[o].kind = "NamedTuple" /\ heap'[o].st = "live"
                   /\ descs'[heap'[o].desc].names =
                        [i \in 1..size |-> kw.seq[i].k]
                   /\ heap'[o].items = [i \in 1..size |-> kw.seq[i].v]
      ]_vars

\* C17: NamedTuple(**kwargs) on the base type fails with a ValueError when
\* there is no keyword, creating no descriptor and no tuple and leaving the
\* free lists as they were.  With 1 to EDGE_MAX_TUPLE_SIZE keywords whose
\* names are plain strings it succeeds, with one slot per keyword, in
\* keyword order, holding its value.  With more keywords, or a keyword name
\* that is not a plain string, it fails with a ValueError in the same way.
C17_AdHocWithinLimit ==
    [][ (ret'.op = "namedtuple_new" /\ ret'.a = <<>>) =>
          LET kw == ret'.b
              big == kw.size > Len(kw.seq)
              size == kw.size
              o == ret'.o
          IN  IF \/ size = 0 \/ size > EDGE_MAX_TUPLE_SIZE
                 \/ \E i \in 1..size : ~PyUnicode_CheckExact(kw.seq[i].k)
              THEN /\ ret'.err = "ValueError" /\ o = 0
                   /\ heap' = heap /\ pools' = pools /\ descs' = descs
              ELSE /\ ret'.err = "none"
                   /\ heap'[o].kind = "NamedTuple" /\ heap'[o].st = "live"
                   /\ descs'[heap'[o].desc].names =
                        [i \in 1..size |-> kw.seq[i].k]
                   /\ heap'[o].items = [i \in 1..size |-> kw.seq[i].v]
      ]_vars

\* NamedTuple() was called with an empty keyword dict while a NamedTuple
\* waited in the free list: the call raised ValueError.
C17_Witness ==
    /\ ret.op = "namedtuple_new" /\ ret.a = <<>> /\ ret.err = "ValueError"
    /\ ret.b.some /\ ret.b.size = 0
    /\ \E n \in 1..2 : pools["NamedTuple"].fl[n] # 0

(***************************************************************************)
(* Descriptor construction on its own: EdgeRecordDesc_New is called with   *)
(* well-formed and malformed arguments, and the descriptors it returned    *)
(* are looked up.                                                          *)
(***************************************************************************)
MaxShapes == 2

\* A names tuple of EDGE_MAX_TUPLE_SIZE + 1 strings.
BigNames ==
    SubSeq([i \in 1..(EDGE_MAX_TUPLE_SIZE + 1) |-> ToString(i)],
           1, EDGE_MAX_TUPLE_SIZE + 1)

\* The arguments: names, flags (NULL or a tuple) and cardinality codes (NULL
\* or a tuple).
DescInputs ==
    { [names |-> <<"id", "name">>, flags |-> ArgTuple(<<1, 0>>), cards |-> ArgNull],
      [names |-> <<"id", "name">>, flags |-> ArgNull, cards |-> ArgNull],
      [names |-> <<"id", "name">>, flags |-> ArgNull,
       cards |-> ArgTuple(<<65, 109>>)],
      [names |-> <<"id", "name", "id">>, flags |-> ArgTuple(<<0, 0, 4>>),
       cards |-> ArgTuple(<<110, 111, 77>>)],
      [names |-> <<"name">>, flags |-> ArgTuple(<<6>>), cards |-> ArgNull],
      [names |-> <<>>, flags |-> ArgTuple(<<>>), cards |-> ArgNull],
      [names |-> <<"name", NonStrName>>, flags |-> ArgNull, cards |-> ArgNull],
      [names |-> <<"name">>, flags |-> ArgTuple(<<1, 2>>), cards |-> ArgNull],
      [names |-> <<"name">>, flags |-> ArgTuple(<<1>>),
       cards |-> ArgTuple(<<65, 65>>)],
      [names |-> <<"name">>, flags |-> ArgTuple(<<1>>),
       cards |-> ArgTuple(<<66>>)],
      [names |-> <<"name">>, flags |-> ArgTuple(<<129>>), cards |-> ArgNull],
      [names |-> <<"id">>, flags |-> ArgTuple(<<-1>>), cards |-> ArgNull],
      [names |-> BigNames, flags |-> ArgNull, cards |-> ArgNull] }

\* EdgeRecordDesc_New(names, flags, cards); the edgedb revision has no third
\* parameter.  ret keeps the arguments, the names only when they are few.
\* The gel revision's (uint32_t) wrap of a negative flag is left out: a
\* negative flag is passed to the edgedb revision only.
DescNew(shape) ==
    /\ shape.flags.some /\ rev = "gel"
          => \A i \in 1..Len(shape.flags.seq) : shape.flags.seq[i] >= 0
    /\ \E cards \in {IF rev = "gel" THEN shape.cards ELSE ArgNull} :
       \E r \in {EdgeRecordDesc_New(rev, shape.names, shape.flags, cards)} :
         /\ descs' = IF r.err = "none" THEN Append(descs, r.d) ELSE descs
         /\ ret' = [NoRet EXCEPT
                      !.op = "RecordDesc_New", !.err = r.err,
                      !.size = Len(shape.names),
                      !.val = [names |-> IF Len(shape.names) > 3 THEN <<>>
                                         ELSE shape.names,
                               flags |-> shape.flags, cards |-> cards]]
    /\ UNCHANGED <<rev, base_hash, heap, pools>>

NextDesc ==
    \/ \E shape \in DescInputs : DescNew(shape) /\ Len(descs') <= MaxShapes
    \/ \E di \in 1..Len(descs), key \in LookupKeys : Lookup(di, key)

SpecDesc == Init /\ [][NextDesc]_vars

\* The conditions C18 lists for a call with the arguments s of n names: too
\* many names, a flags or cardinalities tuple of another length, a name that
\* is not a string, a cardinality code outside the five recognised ones.
C18_Listed(s, n) ==
    \/ n > 16383
    \/ (s.flags.some /\ Len(s.flags.seq) # n)
    \/ (s.cards.some /\ Len(s.cards.seq) # n)
    \/ \E i \in 1..Len(s.names) : s.names[i] = NonStrName
    \/ (s.cards.some
        /\ \E i \in 1..Len(s.cards.seq) :
              s.cards.seq[i] \notin {110, 111, 65, 109, 77})

\* What a successful call appends: size, names, one flags entry and one
\* cardinality per name.
C18_Built(s, n) ==
    /\ ret'.err = "none"
    /\ Len(descs') = Len(descs) + 1
    /\ SubSeq(descs', 1, Len(descs)) = descs
    /\ LET d == descs'[Len(descs')]
       IN  /\ d.size = n
           /\ d.names = s.names
           /\ Len(d.flags) = n
           /\ Len(d.cards) = n
           /\ \A i \in 1..n :
                /\ d.flags[i] = IF s.flags.some THEN s.flags.seq[i] ELSE 0
                /\ d.cards[i] =
                     IF ~s.cards.some THEN "UNKNOWN"
                     ELSE CASE s.cards.seq[i] = 110 -> "NO_RESULT"
                            [] s.cards.seq[i] = 111 -> "AT_MOST_ONE"
                            [] s.cards.seq[i] = 65 -> "ONE"
                            [] s.cards.seq[i] = 109 -> "MANY"
                            [] s.cards.seq[i] = 77 -> "AT_LEAST_ONE"

C19_LastId(names) ==
    LET S == {i \in 1..Len(names) : names[i] = "id"}
    IN  IF S = {} THEN -1 ELSE (CHOOSE i \in S : \A j \in S : j <= i) - 1

\* The part of C19 that is told of every descriptor d, whatever arguments
\* built it: idpos is -1 or the position of a name "id", and with flags it
\* is the last such position, the one the lookup of "id" returns.
C19_IdPosOf(d) ==
    /\ EdgeRecordDesc_IDPos(d) = -1
       \/ /\ EdgeRecordDesc_IDPos(d) \in 0..(d.size - 1)
          /\ d.names[EdgeRecordDesc_IDPos(d) + 1] = "id"
    /\ d.given.some /\ C19_LastId(d.names) # -1
         => /\ EdgeRecordDesc_IDPos(d) = C19_LastId(d.names)
            /\ EdgeRecordDesc_Lookup(d, "id").pos = EdgeRecordDesc_IDPos(d)

\* C19: every descriptor's id_position is absent or a position p < size
\* with names[p] = "id"; with flags and a name "id", p is the last such
\* position and the one lookup("id") returns; without flags id_position is
\* absent; and id_position never changes once the descriptor is built.
C19_IdPosition ==
    [][ /\ \A i \in 1..Len(descs) :
             i <= Len(descs')
             /\ EdgeRecordDesc_IDPos(descs'[i]) = EdgeRecordDesc_IDPos(descs[i])
        /\ \A i \in 1..Len(descs') :
             /\ C19_IdPosOf(descs'[i])
             /\ ~descs'[i].given.some
                  => EdgeRecordDesc_IDPos(descs'[i]) = -1 ]_vars

\* What holds of C19 in both revisions: all of it for the descriptors built
\* with flags or without cardinalities.
C19_IdPositionButCardsOnly ==
    [][ /\ \A i \in 1..Len(descs) :
             i <= Len(descs')
             /\ EdgeRecordDesc_IDPos(descs'[i]) = EdgeRecordDesc_IDPos(descs[i])
        /\ \A i \in 1..Len(descs') :
             /\ C19_IdPosOf(descs'[i])
             /\ (/\ ~descs'[i].given.some
                 /\ \A j \in 1..descs'[i].size : descs'[i].cards[j] = "UNKNOWN")
                  => EdgeRecordDesc_IDPos(descs'[i]) = -1 ]_vars

\* The gel revision built a descriptor from names and cardinalities without
\* flags, and its id_position is set.
C19_Witness ==
    /\ rev = "gel"
    /\ ret.op = "RecordDesc_New" /\ ret.err = "none"
    /\ ~ret.val.flags.some /\ ret.val.cards.some
    /\ Len(descs) >= 1
    /\ descs[Len(descs)].names = <<"id", "name">>
    /\ EdgeRecordDesc_IDPos(descs[Len(descs)]) = 0

(***************************************************************************)
(* _EdgeGeneric_RichCompareValues on its own, over item arrays of every    *)
(* length up to MaxCompLen and all six operators.                          *)
(***************************************************************************)
MaxCompLen == 2

\* 1 and 1.0 are equal, None is ordered with nothing, and a raiser fails
\* every comparison but the one with itself.
CompElems == {PyInt(1), PyFloat(1), PyInt(2), Py_None, PyRaiser(1)}

CompInputs == UNION { [1..n -> CompElems] : n \in 0..MaxCompLen }

RichOps == {"EQ", "NE", "LT", "GT", "LE", "GE"}

\* The two item arrays are drawn at the start and kept in ret.a and ret.b.
InitComp ==
    /\ rev = "edgedb"
    /\ base_hash = BaseHashSmall
    /\ descs = <<>>
    /\ heap = <<>>
    /\ pools = EmptyPools
    /\ \E left \in CompInputs, right \in CompInputs :
         ret = [NoRet EXCEPT !.a = left, !.b = right]

\* _EdgeGeneric_RichCompareValues(left_items, left_len, right_items,
\* right_len, op) on the two arrays
RichCompareValues(op) ==
    /\ \E r \in {EdgeGeneric_RichCompareValues(ret.a, ret.b, op)} :
         ret' = [ret EXCEPT !.op = "rich_compare", !.key = op, !.val = r,
                            !.err = IF r = "NULL" THEN "raised" ELSE "none"]
    /\ UNCHANGED <<rev, base_hash, descs, heap, pools>>

NextComp == \E op \in RichOps : RichCompareValues(op)

SpecComp == InitComp /\ [][NextComp]_vars

\* The positions of the common length at which the equality test answers
\* "unequal", and those at which it fails.
C20_Unequal(L, R) ==
    {i \in 1..Len(L) : i <= Len(R) /\ PyObject_RichCompareBool(L[i], R[i], "EQ") = 0}

C20_Failing(L, R) ==
    {i \in 1..Len(L) : i <= Len(R) /\ PyObject_RichCompareBool(L[i], R[i], "EQ") < 0}

\* What the lengths alone answer.
C20_ByLength(ll, rl, op) ==
    CASE op = "EQ" -> ll = rl
      [] op = "NE" -> ll # rl
      [] op = "LT" -> ll < rl
      [] op = "GT" -> ll > rl
      [] op = "LE" -> ll <= rl
      [] op = "GE" -> ll >= rl

\* C20: rich_compare(L, R, op) is the lexicographic comparison: EQ and NE
\* on different lengths are answered from the lengths with no element
\* compared, so even when every element comparison would fail; otherwise an
\* equality test that fails before any unequal pair makes the comparison
\* fail; otherwise the first unequal pair decides (EQ False, NE True, the
\* ordering operators whatever that pair answers) and without one the
\* lengths decide; and NE is the negation of EQ.
C20_Lexicographic ==
    ret.op = "rich_compare" =>
      LET L == ret.a
          R == ret.b
          op == ret.key
          B(c) == IF c THEN "True" ELSE "False"
          D == C20_Unequal(L, R)
          F == C20_Failing(L, R)
      IN  /\ IF Len(L) # Len(R) /\ op \in {"EQ", "NE"}
             THEN ret.val = B(op = "NE")
             ELSE IF \E f \in F : \A d \in D : f < d
             THEN ret.val = "NULL"
             ELSE IF D = {}
             THEN ret.val = B(C20_ByLength(Len(L), Len(R), op))
             ELSE \E k \in D :
                    /\ \A d \in D : k <= d
                    /\ ret.val = CASE op = "EQ" -> "False"
                                   [] op = "NE" -> "True"
                                   [] OTHER -> PyObject_RichCompare(L[k], R[k], op)
          /\ op = "NE" =>
               ret.val = CASE EdgeGeneric_RichCompareValues(L, R, "EQ") = "True" -> "False"
                           [] EdgeGeneric_RichCompareValues(L, R, "EQ") = "False" -> "True"
                           [] OTHER -> "NULL"

\* (1,) < (1.0, 2) answered True: 1 and 1.0 are equal and the left side is
\* a proper prefix.
C20_Witness ==
    /\ ret.op = "rich_compare" /\ ret.key = "LT"
    /\ ret.a = <<PyInt(1)>> /\ ret.b = <<PyFloat(1), PyInt(2)>>
    /\ ret.val = "True"

(***************************************************************************)
(* _EdgeGeneric_Hash and _EdgeGeneric_HashWithBase on their own, over      *)
(* element arrays that hold hashable and unhashable values and values      *)
(* whose hashes drive the accumulator to (Py_uhash_t)-1.                   *)
(***************************************************************************)
MaxHashLen == 2

\* 0x8A1589ED2ABDCFAA: the hash of a single element for which acc is
\* (Py_uhash_t)-1 at hash.c:63.
LaneToMinusOne == <<53162, 10941, 35309, 35349>>

\* 0x6DA9F12168652CA4: the hash of a single element for which the (Py_hash_t)
\* of x is -1 at hash.c:139 when base_hash is BaseHashSmall.Object.
LaneToBaseMinusOne == <<13412, 26725, 61729, 28073>>

\* 1 and 1.0 have the same hash; a list has none.
HashElems == {PyInt(1), PyFloat(1), PyInt(2), PyList(1),
              PyHashed(LaneToMinusOne), PyHashed(LaneToBaseMinusOne)}

HashInputs == UNION { [1..n -> HashElems] : n \in 0..MaxHashLen }

\* The element array is drawn at the start and kept in ret.a.
InitHash ==
    /\ rev = "edgedb"
    /\ base_hash \in BaseHashChoices
    /\ descs = <<>>
    /\ heap = <<>>
    /\ pools = EmptyPools
    /\ \E els \in HashInputs : ret = [NoRet EXCEPT !.a = els]

\* _EdgeGeneric_Hash(els, len)
GenericHash ==
    /\ ret' = [ret EXCEPT !.op = "hash", !.key = "",
                          !.h = EdgeGeneric_Hash(ret.a),
                          !.lanes = HashLanes(ret.a)]
    /\ UNCHANGED <<rev, base_hash, descs, heap, pools>>

\* _EdgeGeneric_HashWithBase(base_hash, els, len) with a type's base_hash
GenericHashWithBase(kind) ==
    /\ ret' = [ret EXCEPT !.op = "hash_with_base", !.key = kind,
                          !.h = EdgeGeneric_HashWithBase(base_hash[kind], ret.a),
                          !.lanes = HashLanes(ret.a)]
    /\ UNCHANGED <<rev, base_hash, descs, heap, pools>>

NextHash ==
    \/ GenericHash
    \/ \E kind \in HashedKinds : GenericHashWithBase(kind)

SpecHash == InitHash /\ [][NextHash]_vars

\* The accumulator after the element hashes hs[i..], by the arithmetic of
\* Python's tuple hash modulo 2^64.
RECURSIVE C21_Acc(_, _, _)
C21_Acc(hs, i, acc) ==
    IF i > Len(hs) THEN acc
    ELSE C21_Acc(hs, i + 1,
            WMul(PyHASH_XXROTATE(WAdd(acc, WMul(hs[i], PyHASH_XXPRIME_2))),
                 PyHASH_XXPRIME_1))

\* The hash as a function of the ordered element hashes and their number:
\* the accumulator plus the mangled length, -1 replaced by 1546275796.
C21_OfHashes(hs) ==
    LET raw == WAdd(C21_Acc(hs, 1, PyHASH_XXPRIME_5),
                    WXor(WordOfNat(Len(hs)), WXor(PyHASH_XXPRIME_5, XXLenMangle)))
    IN  IF raw = MinusOne THEN XXMinusOneRemap ELSE raw

\* The salted hash as a function of the base hash and the elements' hash:
\* two rounds of the multiplicative hash, -1 replaced by -2.
C21_OfBase(base, els_hash) ==
    LET x1 == WMul(WXor(BaseSeed, base), PyHASH_MULTIPLIER)
        x2 == WMul(WXor(x1, els_hash), WAdd(PyHASH_MULTIPLIER, BaseMultStep))
        raw == WAdd(x2, BaseAddend)
    IN  IF raw = MinusOne THEN MinusTwo ELSE raw

\* C21: _EdgeGeneric_Hash and _EdgeGeneric_HashWithBase return -1 exactly
\* when an element's hash failed, having hashed the elements up to the first
\* failing one and no further; otherwise the result is a function of (the
\* base hash,) the ordered element hashes and the length, computed modulo
\* 2^64 with a result of -1 replaced by a fixed valid value; and the empty
\* sequence hashes to one fixed constant (0x4FA9D65E2CBA1C7B).
C21_HashContract ==
    ret.op \in {"hash", "hash_with_base"} =>
      LET els == ret.a
          hs == [i \in 1..Len(els) |-> PyObject_Hash(els[i])]
          Bad == {i \in 1..Len(els) : hs[i] = MinusOne}
      IN  /\ ret.h = MinusOne <=> Bad # {}
          /\ Bad # {} => ret.lanes \in Bad /\ \A i \in Bad : ret.lanes <= i
          /\ Bad = {} =>
               /\ ret.lanes = Len(els)
               /\ ret.op = "hash" => ret.h = C21_OfHashes(hs)
               /\ ret.op = "hash_with_base" =>
                    ret.h = C21_OfBase(base_hash[ret.key], C21_OfHashes(hs))
          /\ ret.op = "hash" /\ els = <<>> => ret.h = <<7291, 11450, 54878, 20393>>

\* The hash of one element that drives the accumulator to -1 came out as
\* 1546275796.
C21_Witness ==
    /\ ret.op = "hash"
    /\ ret.a = <<PyHashed(LaneToMinusOne)>>
    /\ ret.h = XXMinusOneRemap

(***************************************************************************)
(* repr.c: _EdgeGeneric_RenderValues and _EdgeGeneric_RenderItems, with    *)
(* the tp_repr functions that call them.  The text a writer holds is a     *)
(* sequence of the strings written to it.  A render that is under way is a *)
(* frame [o, i, out, lp, impl]: the host, the loop index, the text written *)
(* so far and the two include flags; the frames of nested renders form the *)
(* C call stack.                                                           *)
(***************************************************************************)
\* record_desc.c:391-403 and 421-433; -1 when pos is out of range
EdgeRecordDesc_PointerIsLinkProp(d, pos) ==
    IF pos < 0 \/ pos >= d.size THEN -1
    ELSE IF HasBit(d.flags[pos + 1], EDGE_POINTER_IS_LINKPROP) THEN 1 ELSE 0

EdgeRecordDesc_PointerIsImplicit(d, pos) ==
    IF pos < 0 \/ pos >= d.size THEN -1
    ELSE IF HasBit(d.flags[pos + 1], EDGE_POINTER_IS_IMPLICIT) THEN 1 ELSE 0

\* Py_ReprEnter(host) on the thread's list of objects being rendered: 1 when
\* host is in it already, else 0 with host added.
Py_ReprEnter(reprs, host) ==
    [res |-> IF host \in reprs THEN 1 ELSE 0, reprs |-> reprs \cup {host}]

Py_ReprLeave(reprs, host) == reprs \ {host}

\* PyObject_Repr of a value that is not one of the containers: "NULL" when
\* its __repr__ raises.
PyObject_Repr(x) ==
    CASE x.t = "raiser" -> "NULL"
      [] x.t = "none" -> "None"
      [] OTHER -> ToString(x.v)

\* What set_repr, object_repr and tuple_repr write around the rendered items.
ReprOpen(kind) ==
    CASE kind = "Set" -> "Set{" [] kind = "Object" -> "Object{" [] OTHER -> "("

ReprClose(kind) == IF kind \in {"Set", "Object"} THEN "}" ELSE ")"

\* repr.c:116-129: the field at f.i is passed over.
RenderSkips(h, ds, f) ==
    /\ h[f.o].kind = "Object"
    /\ \/ (EdgeRecordDesc_PointerIsImplicit(ds[h[f.o].desc], f.i) = 1 /\ ~f.impl)
       \/ (EdgeRecordDesc_PointerIsLinkProp(ds[h[f.o].desc], f.i) = 1 /\ ~f.lp)

\* What the loop body writes for the item at f.i whose repr is the text s:
\* repr.c:58-68 for values, repr.c:120-160 for named fields.
RenderWrites(h, ds, f, s) ==
    LET sep == IF f.i < Len(h[f.o].items) - 1 THEN <<", ">> ELSE <<>>
    IN  IF h[f.o].kind = "Object"
        THEN (IF EdgeRecordDesc_PointerIsLinkProp(ds[h[f.o].desc], f.i) = 1
              THEN <<"@">> ELSE <<>>)
             \o <<ds[h[f.o].desc].names[f.i + 1], " := ">> \o s \o sep
        ELSE s \o sep

\* An error exit that leaves the host in the list: the variant C22 rules
\* out.
RenderErrorExit_NoLeave(reprs, host) == reprs

\* repr.c:74-76 and 166-170, the error label
RenderErrorExit(reprs, host) == Py_ReprLeave(reprs, host)

(***************************************************************************)
(* repr() of a Set, a Tuple and an Object that may hold each other and     *)
(* themselves.  ret holds the call stack (frames), the list of objects     *)
(* being rendered (reprs, pre its value when the top-level call began),    *)
(* the top-level host and flags, and the call's result (val).              *)
(***************************************************************************)
MaxRenderLen == 2

\* 1, a value whose __repr__ raises, and the two containers.
RenderElems == {PyInt(1), PyRaiser(1), PyPtr(1), PyPtr(2)}

RenderInputs == UNION { [1..n -> RenderElems] : n \in 0..MaxRenderLen }

\* The field names of the Object, by position.
RenderNames == <<"id", "a", "b", "c">>

\* Per-field flags of the Object: a plain, an implicit and a link-property
\* field.
RenderFlags ==
    UNION { [1..n -> {0, EDGE_POINTER_IS_IMPLICIT, EDGE_POINTER_IS_LINKPROP}] :
              n \in 1..MaxRenderLen }

RenderRet == [op |-> "none", frames |-> <<>>, reprs |-> {}, pre |-> {},
              o |-> 0, lp |-> TRUE, impl |-> FALSE, val |-> <<>>, err |-> "none"]

\* heap[1] is a Set or a Tuple, heap[2] an Object of descs[1]; address 0 in
\* reprs stands for a Python list whose repr is under way around the call.
InitRender ==
    /\ rev = "edgedb"
    /\ base_hash = BaseHashSmall
    /\ pools = EmptyPools
    /\ \E flags \in RenderFlags, kind \in {"Set", "Tuple"},
          els \in RenderInputs, fields \in RenderInputs :
         /\ Len(fields) = Len(flags)
         /\ descs = <<EdgeRecordDesc_New("edgedb", SubSeq(RenderNames, 1, Len(flags)),
                                         ArgTuple(flags), ArgNull).d>>
         /\ LET c == IF kind = "Set" THEN set_tp_new(<<>>, els)
                     ELSE tuple_new(<<>>, EmptyPools, els)
                ob == EdgeObject_New("edgedb", c.heap, EmptyPools, descs, 1)
            IN  heap = SetItems(ob.heap, ob.o, fields)
         /\ ret = [RenderRet EXCEPT !.reprs = {0}, !.pre = {0}]

Top == ret.frames[Len(ret.frames)]

Pop(frames) == SubSeq(frames, 1, Len(frames) - 1)

\* repr(o): tp_repr calls the renderer, whose Py_ReprEnter finds the host
\* absent and adds it.  object_repr passes include_link_props = 1 and
\* include_implicit = 0; _EdgeGeneric_RenderItems itself takes any flags.
ReprCall(o, lp, impl) ==
    /\ ret.frames = <<>>
    /\ heap[o].kind # "Object" => lp /\ ~impl
    /\ \E e \in {Py_ReprEnter(ret.reprs, o)} :
         /\ e.res = 0
         /\ ret' = [RenderRet EXCEPT
                      !.op = "call", !.o = o, !.lp = lp, !.impl = impl,
                      !.pre = ret.reprs, !.reprs = e.reprs,
                      !.frames = <<[o |-> o, i |-> 0, out |-> <<>>,
                                    lp |-> lp, impl |-> impl]>>]
    /\ UNCHANGED <<rev, base_hash, descs, heap, pools>>

\* The loop passes over a field (continue).
RenderSkip ==
    /\ ret.frames # <<>> /\ ret.err = "none"
    /\ Top.i < Len(heap[Top.o].items)
    /\ RenderSkips(heap, descs, Top)
    /\ ret' = [ret EXCEPT !.op = "skip", !.frames[Len(ret.frames)].i = @ + 1]
    /\ UNCHANGED <<rev, base_hash, descs, heap, pools>>

\* The item is no container: its repr is written, or it raises and the
\* render leaves through the error label.
RenderScalar ==
    /\ ret.frames # <<>> /\ ret.err = "none"
    /\ Top.i < Len(heap[Top.o].items)
    /\ ~RenderSkips(heap, descs, Top)
    /\ \E x \in {heap[Top.o].items[Top.i + 1]} :
         /\ x.t # "ptr"
         /\ IF PyObject_Repr(x) = "NULL"
            THEN ret' = [ret EXCEPT !.op = "fail", !.err = "raised",
                                    !.reprs = RenderErrorExit(ret.reprs, Top.o),
                                    !.frames = Pop(ret.frames)]
            ELSE ret' = [ret EXCEPT
                           !.op = "item",
                           !.frames[Len(ret.frames)].out =
                               @ \o RenderWrites(heap, descs, Top, <<PyObject_Repr(x)>>),
                           !.frames[Len(ret.frames)].i = @ + 1]
    /\ UNCHANGED <<rev, base_hash, descs, heap, pools>>

\* The item is a container that is being rendered: its tp_repr writes the
\* brackets around the "..." of repr.c:40-46 and returns.
RenderEllipsis ==
    /\ ret.frames # <<>> /\ ret.err = "none"
    /\ Top.i < Len(heap[Top.o].items)
    /\ ~RenderSkips(heap, descs, Top)
    /\ \E x \in {heap[Top.o].items[Top.i + 1]} :
         /\ x.t = "ptr"
         /\ Py_ReprEnter(ret.reprs, x.v).res = 1
         /\ ret' = [ret EXCEPT
                      !.op = "ellipsis",
                      !.frames[Len(ret.frames)].out =
                          @ \o RenderWrites(heap, descs, Top,
                                 <<ReprOpen(heap[x.v].kind), "...",
                                   ReprClose(heap[x.v].kind)>>),
                      !.frames[Len(ret.frames)].i = @ + 1]
    /\ UNCHANGED <<rev, base_hash, descs, heap, pools>>

\* The item is a container that is not being rendered: its tp_repr starts a
\* render of its own.
RenderEnter ==
    /\ ret.frames # <<>> /\ ret.err = "none"
    /\ Top.i < Len(heap[Top.o].items)
    /\ ~RenderSkips(heap, descs, Top)
    /\ \E x \in {heap[Top.o].items[Top.i + 1]} :
         /\ x.t = "ptr"
         /\ Py_ReprEnter(ret.reprs, x.v).res = 0
         /\ ret' = [ret EXCEPT
                      !.op = "enter",
                      !.reprs = Py_ReprEnter(ret.reprs, x.v).reprs,
                      !.frames = Append(@, [o |-> x.v, i |-> 0, out |-> <<>>,
                                            lp |-> TRUE, impl |-> FALSE])]
    /\ UNCHANGED <<rev, base_hash, descs, heap, pools>>

\* The loop is over: Py_ReprLeave, and tp_repr returns the text, which the
\* render that asked for it writes, or which is the result of repr().
RenderReturn ==
    /\ ret.frames # <<>> /\ ret.err = "none"
    /\ Top.i = Len(heap[Top.o].items)
    /\ LET s == <<ReprOpen(heap[Top.o].kind)>> \o Top.out
                  \o <<ReprClose(heap[Top.o].kind)>>
           rest == Pop(ret.frames)
       IN  IF rest = <<>>
           THEN ret' = [ret EXCEPT !.op = "done", !.val = s, !.frames = <<>>,
                                   !.reprs = Py_ReprLeave(ret.reprs, Top.o)]
           ELSE ret' = [ret EXCEPT
                          !.op = "return",
                          !.reprs = Py_ReprLeave(ret.reprs, Top.o),
                          !.frames =
                             [rest EXCEPT
                                ![Len(rest)].out =
                                    @ \o RenderWrites(heap, descs, rest[Len(rest)], s),
                                ![Len(rest)].i = @ + 1]]
    /\ UNCHANGED <<rev, base_hash, descs, heap, pools>>

\* An item's repr came back NULL: the render leaves through the error label
\* and its tp_repr returns NULL in turn.
RenderUnwind ==
    /\ ret.frames # <<>> /\ ret.err = "raised"
    /\ ret' = [ret EXCEPT !.op = "fail",
                          !.reprs = RenderErrorExit(ret.reprs, Top.o),
                          !.frames = Pop(ret.frames)]
    /\ UNCHANGED <<rev, base_hash, descs, heap, pools>>

NextRender ==
    \/ \E o \in 1..Len(heap), lp \in BOOLEAN, impl \in BOOLEAN : ReprCall(o, lp, impl)
    \/ RenderSkip
    \/ RenderScalar
    \/ RenderEllipsis
    \/ RenderEnter
    \/ RenderReturn
    \/ RenderUnwind

SpecRender == InitRender /\ [][NextRender]_vars

\* A render that is under way goes on: the C call returns.
RenderStep ==
    RenderSkip \/ RenderScalar \/ RenderEllipsis \/ RenderEnter
    \/ RenderReturn \/ RenderUnwind

SpecRenderLive == SpecRender /\ WF_vars(RenderStep)

\* The hosts of the renders under way.
C22_Hosts(frames) == {frames[k].o : k \in 1..Len(frames)}

\* C22: a container is in the list of objects being rendered exactly while
\* its render is under way; a nested render of a container that is in the
\* list writes "..." and returns without starting a render and without
\* touching the list; every exit of a render, by completion or by an item's
\* failure, removes its host; when the top-level repr returns, with a result
\* or with an error, the list is what it was before the call; and every
\* render, of cyclic structures too, comes to its end.
C22_RenderGuard ==
    /\ [][ /\ ret'.reprs = ret'.pre \cup C22_Hosts(ret'.frames)
           /\ Cardinality(C22_Hosts(ret'.frames)) = Len(ret'.frames)
           /\ ret'.pre \cap C22_Hosts(ret'.frames) = {}
           /\ ret'.op = "ellipsis" =>
                /\ heap[Top.o].items[Top.i + 1].v \in ret.reprs
                /\ Len(ret'.frames) = Len(ret.frames)
                /\ ret'.reprs = ret.reprs
                /\ \E k \in 1..Len(ret'.frames[Len(ret'.frames)].out) :
                      ret'.frames[Len(ret'.frames)].out[k] = "..."
                /\ ret'.err = "none"
           /\ ret'.op = "enter" =>
                /\ ret'.frames[Len(ret'.frames)].o \notin ret.reprs
                /\ ret'.frames[Len(ret'.frames)].o \in ret'.reprs
           /\ Len(ret'.frames) < Len(ret.frames) =>
                /\ ret'.reprs = ret.reprs \ {Top.o}
                /\ Top.o \notin ret'.reprs
           /\ ret.frames # <<>> /\ ret'.frames = <<>> =>
                /\ ret'.reprs = ret.pre
                /\ ret'.op \in {"done", "fail"}
                /\ ret'.op = "fail" <=> ret'.err = "raised" ]_vars
    /\ (ret.frames # <<>>) ~> (ret.frames = <<>>)

\* repr() of the Set that holds itself and the Object, which holds the Set,
\* has returned "Set{Set{...}, Object{id := Set{...}}}".
C22_Witness ==
    /\ ret.op = "done" /\ ret.o = 1 /\ ret.reprs = {0}
    /\ heap[1].kind = "Set"
    /\ heap[1].items = <<PyPtr(1), PyPtr(2)>>
    /\ heap[2].items = <<PyPtr(1)>>
    /\ ret.val = <<"Set{", "Set{", "...", "}", ", ",
                   "Object{", "id", " := ", "Set{", "...", "}", "}", "}">>

\* The positions (0-based) of the fields of the Object at o that a render
\* with the flags lp and impl does not skip.
C30_Kept(o, lp, impl) ==
    {i \in 0..(Len(heap[o].items) - 1) :
        /\ HasBit(descs[heap[o].desc].flags[i + 1], EDGE_POINTER_IS_IMPLICIT) => impl
        /\ HasBit(descs[heap[o].desc].flags[i + 1], EDGE_POINTER_IS_LINKPROP) => lp}

\* 'name := value' of field i, with '@' before a link property.
C30_Field(o, i) ==
    (IF HasBit(descs[heap[o].desc].flags[i + 1], EDGE_POINTER_IS_LINKPROP)
     THEN <<"@">> ELSE <<>>)
    \o <<descs[heap[o].desc].names[i + 1], " := ",
         ToString(heap[o].items[i + 1].v)>>

\* The fields of K from position i on, joined by ", ".
RECURSIVE C30_Join(_, _, _)
C30_Join(o, K, i) ==
    IF i >= Len(heap[o].items) THEN <<>>
    ELSE IF i \notin K THEN C30_Join(o, K, i + 1)
    ELSE C30_Field(o, i)
         \o (IF \E j \in K : j > i THEN <<", ">> ELSE <<>>)
         \o C30_Join(o, K, i + 1)

\* The fields of K from position i on, each followed by ", " unless it is
\* the Object's last field: what repr.c:156-160 writes.
RECURSIVE C30_Coded(_, _, _)
C30_Coded(o, K, i) ==
    IF i >= Len(heap[o].items) THEN <<>>
    ELSE IF i \notin K THEN C30_Coded(o, K, i + 1)
    ELSE C30_Field(o, i)
         \o (IF i < Len(heap[o].items) - 1 THEN <<", ">> ELSE <<>>)
         \o C30_Coded(o, K, i + 1)

\* C30: what render_items has written when it returns is exactly the fields
\* that are not skipped, in position order, each as 'name := value' (a link
\* property with '@' in front), joined by ", ": no separator in front, none
\* at the end and none for a skipped field, whichever fields are skipped.
C30_RenderItemsJoin ==
    [][ (/\ ret'.op \in {"done", "return"}
         /\ heap[Top.o].kind = "Object") =>
           /\ Top.out # <<>> =>
                Top.out[1] # ", " /\ Top.out[Len(Top.out)] # ", "
           /\ (\A k \in 1..Len(heap[Top.o].items) : heap[Top.o].items[k].t = "int")
                => Top.out = C30_Join(Top.o, C30_Kept(Top.o, Top.lp, Top.impl), 0) ]_vars

\* What the loop does write for an Object of plain values: the kept fields
\* in order, each followed by ", " unless it is the last field of all.
C30_RenderItemsAsCoded ==
    [][ (/\ ret'.op \in {"done", "return"}
         /\ heap[Top.o].kind = "Object"
         /\ \A k \in 1..Len(heap[Top.o].items) : heap[Top.o].items[k].t = "int")
           => Top.out = C30_Coded(Top.o, C30_Kept(Top.o, Top.lp, Top.impl), 0) ]_vars

\* repr() of an Object whose last field is implicit returned
\* "Object{id := 1, }".
C30_Witness ==
    /\ ret.op = "done" /\ ret.o = 2 /\ ret.lp /\ ~ret.impl
    /\ descs[1].flags = <<0, EDGE_POINTER_IS_IMPLICIT>>
    /\ ret.val = <<"Object{", "id", " := ", "1", ", ", "}">>

(***************************************************************************)
(* T[start:stop:step] on Tuples of distinct items, for every slice whose   *)
(* components are None or small integers of either sign.                   *)
(***************************************************************************)
MaxSliceLen == 3

\* The Tuples (1, 2, .., n).
SliceInputs == { [i \in 1..n |-> PyInt(i)] : n \in 0..MaxSliceLen }

\* A slice component: None (<<>>) or an integer that reaches past both ends.
SliceBounds ==
    {<<>>} \cup { <<x>> : x \in -(MaxSliceLen + 2)..(MaxSliceLen + 2) }

SliceSteps ==
    {<<>>} \cup { <<x>> : x \in (-(MaxSliceLen + 1)..(MaxSliceLen + 1)) \ {0} }

\* The Tuple is built at address 1 and the key is kept in ret.key.
InitSlice ==
    /\ rev = "edgedb"
    /\ base_hash = BaseHashSmall
    /\ descs = <<>>
    /\ pools = EmptyPools
    /\ \E values \in SliceInputs : heap = tuple_new(<<>>, EmptyPools, values).heap
    /\ \E start \in SliceBounds, stop \in SliceBounds, step \in SliceSteps :
         ret = [NoRet EXCEPT !.a = 1,
                             !.key = [start |-> start, stop |-> stop, step |-> step]]

\* T[key], once
TupleSubscript ==
    /\ ret.op = "none"
    /\ \E r \in {tuple_getsubscript(heap, pools, ret.a, ret.key)} :
         /\ heap' = r.heap
         /\ pools' = r.pools
         /\ ret' = [ret EXCEPT !.op = "tuple_getsubscript", !.err = r.err,
                               !.o = r.o, !.size = Len(heap[ret.a].items)]
    /\ UNCHANGED <<rev, base_hash, descs>>

NextSlice == TupleSubscript

SpecSlice == InitSlice /\ [][NextSlice]_vars

\* The standard normalisation of a slice bound for n items: None is the
\* end the step starts from (or runs to), a negative bound counts from the
\* right, and a bound past either end is clamped; with a negative step the
\* position before the first item is -1.
C23_Bound(n, x, step, isStart) ==
    LET lo == IF step < 0 THEN -1 ELSE 0
        hi == IF step < 0 THEN n - 1 ELSE n
        v  == IF x = <<>>
              THEN (IF (step < 0) = isStart THEN hi ELSE lo)
              ELSE IF x[1] < 0 THEN x[1] + n ELSE x[1]
    IN  IF v < lo THEN lo ELSE IF v > hi THEN hi ELSE v

\* C23: for a Tuple T of n items and a slice with a step other than 0,
\* T[start:stop:step] is a Tuple whose length is the number of positions
\* start', start' + step, .. before stop' and whose i-th item is
\* T[start' + i*step], start' and stop' being the normalised bounds; every
\* position read is in 0..n-1, an empty selection gives an empty Tuple and
\* T is unchanged.
C23_SliceIsStandard ==
    ret.op = "tuple_getsubscript" =>
      LET n == ret.size
          step == IF ret.key.step = <<>> THEN 1 ELSE ret.key.step[1]
          b == C23_Bound(n, ret.key.start, step, TRUE)
          e == C23_Bound(n, ret.key.stop, step, FALSE)
          Sel == {k \in 0..n : LET x == b + k * step
                               IN  IF step > 0 THEN x < e ELSE x > e}
          res == heap[ret.o].items
      IN  /\ ret.err = "none"
          /\ heap[ret.o].kind = "Tuple" /\ heap[ret.o].st = "live"
          /\ Len(res) = Cardinality(Sel)
          /\ \A k \in Sel :
               /\ b + k * step \in 0..(n - 1)
               /\ k + 1 <= Len(res)
               /\ res[k + 1] = PyInt(b + k * step + 1)
          /\ heap[ret.a].items = [i \in 1..n |-> PyInt(i)]
          /\ heap[ret.a].st = "live"

\* (1, 2, 3)[-1:-5:-2] is a new Tuple (3, 1).
C23_Witness ==
    /\ ret.op = "tuple_getsubscript"
    /\ ret.key = [start |-> <<-1>>, stop |-> <<-5>>, step |-> <<-2>>]
    /\ ret.size = 3 /\ ret.o # ret.a
    /\ heap[ret.o].items = <<PyInt(3), PyInt(1)>>

(***************************************************************************)
(* Two threads on the Tuple free list.  In the mode "atomic" a thread runs *)
(* EDGE_NEW_WITH_FREELIST or EDGE_DEALLOC_WITH_FREELIST as one step (the   *)
(* interpreter lock is held across the macro); in the mode "interleaved"   *)
(* each read and each write of _FL, _FL_NUM_FREE and ob_item[0] is a step  *)
(* of its own and the steps of the two threads alternate freely.  ret.th   *)
(* holds each thread's position (pc), its _o and the value of NUM_FREE it  *)
(* has loaded; ret.owned[t] the objects a constructor has returned to t    *)
(* and t has not destroyed, ret.ops the calls begun so far.                *)
(***************************************************************************)
MaxRaceAlloc == 3

\* Constructor and destructor calls in one run (ret.ops counts them).
MaxRaceOps == 6

\* The size bucket the two threads share.
RaceSize == 1

Threads == {1, 2}

IdleThread == [pc |-> "idle", o |-> 0, nf |-> 0]

InitRace ==
    /\ rev = "edgedb"
    /\ base_hash = BaseHashSmall
    /\ descs = <<>>
    /\ heap = <<>>
    /\ pools = EmptyPools
    /\ \E mode \in {"atomic", "interleaved"} :
         ret = [mode |-> mode, th |-> [t \in Threads |-> IdleThread],
                owned |-> [t \in Threads |-> {}], ops |-> 0]

\* EdgeTuple_New(RaceSize) under the lock
AtomicNew(t) ==
    /\ ret.mode = "atomic"
    /\ \E r \in {EdgeTuple_New(heap, pools, RaceSize)} :
         /\ heap' = r.heap
         /\ pools' = r.pools
         /\ ret' = [ret EXCEPT !.owned[t] = @ \cup {r.o}, !.ops = @ + 1]
    /\ UNCHANGED <<rev, base_hash, descs>>

\* tuple_dealloc(o) under the lock
AtomicDealloc(t, o) ==
    /\ ret.mode = "atomic"
    /\ o \in ret.owned[t]
    /\ \E r \in {tuple_dealloc(heap, pools, o)} :
         /\ heap' = r.heap
         /\ pools' = r.pools
    /\ ret' = [ret EXCEPT !.owned[t] = @ \ {o}, !.ops = @ + 1]
    /\ UNCHANGED <<rev, base_hash, descs>>

\* freelist.h:45-47 and 59-77: _o = _FL[size]; with an empty bucket the
\* object comes from PyObject_GC_NewVar and the macro is done.
RaceNewRead(t) ==
    /\ ret.mode = "interleaved" /\ ret.th[t].pc = "idle"
    /\ IF pools["Tuple"].fl[RaceSize] = 0
       THEN /\ heap' = Append(heap, [kind |-> "Tuple", items |-> NullSlots(RaceSize),
                                     desc |-> 0, cached_hash |-> Indeterminate,
                                     st |-> "live"])
            /\ ret' = [ret EXCEPT !.owned[t] = @ \cup {Len(heap) + 1},
                                  !.ops = @ + 1]
       ELSE /\ heap' = heap
            /\ ret' = [ret EXCEPT !.th[t].pc = "new_unlink",
                                  !.th[t].o = pools["Tuple"].fl[RaceSize],
                                  !.ops = @ + 1]
    /\ UNCHANGED <<rev, base_hash, descs, pools>>

\* freelist.h:53: _FL[size] = _o->ob_item[0]
RaceNewUnlink(t) ==
    /\ ret.mode = "interleaved" /\ ret.th[t].pc = "new_unlink"
    /\ pools' = [pools EXCEPT !["Tuple"].fl[RaceSize] =
                   PtrAddr(heap[ret.th[t].o].items[1])]
    /\ ret' = [ret EXCEPT !.th[t].pc = "new_load"]
    /\ UNCHANGED <<rev, base_hash, descs, heap>>

\* freelist.h:54: the read of _FL_NUM_FREE[size]--
RaceNewLoad(t) ==
    /\ ret.mode = "interleaved" /\ ret.th[t].pc = "new_load"
    /\ ret' = [ret EXCEPT !.th[t].pc = "new_store",
                          !.th[t].nf = pools["Tuple"].num_free[RaceSize]]
    /\ UNCHANGED <<rev, base_hash, descs, heap, pools>>

\* freelist.h:54: the write of _FL_NUM_FREE[size]--
RaceNewStore(t) ==
    /\ ret.mode = "interleaved" /\ ret.th[t].pc = "new_store"
    /\ pools' = [pools EXCEPT !["Tuple"].num_free[RaceSize] = ret.th[t].nf - 1]
    /\ ret' = [ret EXCEPT !.th[t].pc = "new_init"]
    /\ UNCHANGED <<rev, base_hash, descs, heap>>

\* freelist.h:55 and 73-77: _Py_NewReference, the slots set to NULL, obj = _o
RaceNewInit(t) ==
    /\ ret.mode = "interleaved" /\ ret.th[t].pc = "new_init"
    /\ heap' = [heap EXCEPT ![ret.th[t].o].st = "live",
                            ![ret.th[t].o].items = NullSlots(RaceSize)]
    /\ ret' = [ret EXCEPT !.th[t] = IdleThread,
                          !.owned[t] = @ \cup {ret.th[t].o}]
    /\ UNCHANGED <<rev, base_hash, descs, pools>>

\* freelist.h:84-96 and 104: the slots are cleared and the bucket's count is
\* tested; at capacity the object goes to tp_free.
RaceDeallocClear(t, o) ==
    /\ ret.mode = "interleaved" /\ ret.th[t].pc = "idle"
    /\ o \in ret.owned[t]
    /\ IF pools["Tuple"].num_free[RaceSize] < FL_MAX_FREE_LIST("Tuple")
       THEN /\ heap' = [heap EXCEPT ![o].st = "dying",
                                    ![o].items = NullSlots(RaceSize)]
            /\ ret' = [ret EXCEPT !.th[t].pc = "dealloc_link", !.th[t].o = o,
                                  !.owned[t] = @ \ {o}, !.ops = @ + 1]
       ELSE /\ heap' = [heap EXCEPT ![o].st = "freed",
                                    ![o].items = NullSlots(RaceSize)]
            /\ ret' = [ret EXCEPT !.owned[t] = @ \ {o}, !.ops = @ + 1]
    /\ UNCHANGED <<rev, base_hash, descs, pools>>

\* freelist.h:98: _o->ob_item[0] = _FL[len]
RaceDeallocLink(t) ==
    /\ ret.mode = "interleaved" /\ ret.th[t].pc = "dealloc_link"
    /\ heap' = [heap EXCEPT ![ret.th[t].o].items[1] =
                   PyPtr(pools["Tuple"].fl[RaceSize])]
    /\ ret' = [ret EXCEPT !.th[t].pc = "dealloc_load"]
    /\ UNCHANGED <<rev, base_hash, descs, pools>>

\* freelist.h:99: the read of _FL_NUM_FREE[len]++
RaceDeallocLoad(t) ==
    /\ ret.mode = "interleaved" /\ ret.th[t].pc = "dealloc_load"
    /\ ret' = [ret EXCEPT !.th[t].pc = "dealloc_store",
                          !.th[t].nf = pools["Tuple"].num_free[RaceSize]]
    /\ UNCHANGED <<rev, base_hash, descs, heap, pools>>

\* freelist.h:99: the write of _FL_NUM_FREE[len]++
RaceDeallocStore(t) ==
    /\ ret.mode = "interleaved" /\ ret.th[t].pc = "dealloc_store"
    /\ pools' = [pools EXCEPT !["Tuple"].num_free[RaceSize] = ret.th[t].nf + 1]
    /\ ret' = [ret EXCEPT !.th[t].pc = "dealloc_publish"]
    /\ UNCHANGED <<rev, base_hash, descs, heap>>

\* freelist.h:100: _FL[len] = _o
RaceDeallocPublish(t) ==
    /\ ret.mode = "interleaved" /\ ret.th[t].pc = "dealloc_publish"
    /\ pools' = [pools EXCEPT !["Tuple"].fl[RaceSize] = ret.th[t].o]
    /\ heap' = [heap EXCEPT ![ret.th[t].o].st = "pooled"]
    /\ ret' = [ret EXCEPT !.th[t] = IdleThread]
    /\ UNCHANGED <<rev, base_hash, descs>>

NextRace ==
    \/ \E t \in Threads :
         AtomicNew(t) /\ Len(heap') <= MaxRaceAlloc /\ ret'.ops <= MaxRaceOps
    \/ \E t \in Threads, o \in 1..Len(heap) :
         AtomicDealloc(t, o) /\ ret'.ops <= MaxRaceOps
    \/ \E t \in Threads :
         RaceNewRead(t) /\ Len(heap') <= MaxRaceAlloc /\ ret'.ops <= MaxRaceOps
    \/ \E t \in Threads : RaceNewUnlink(t)
    \/ \E t \in Threads : RaceNewLoad(t)
    \/ \E t \in Threads : RaceNewStore(t)
    \/ \E t \in Threads : RaceNewInit(t)
    \/ \E t \in Threads, o \in 1..Len(heap) :
         RaceDeallocClear(t, o) /\ ret'.ops <= MaxRaceOps
    \/ \E t \in Threads : RaceDeallocLink(t)
    \/ \E t \in Threads : RaceDeallocLoad(t)
    \/ \E t \in Threads : RaceDeallocStore(t)
    \/ \E t \in Threads : RaceDeallocPublish(t)

SpecRace == InitRace /\ [][NextRace]_vars

\* The objects linked from the head a through ob_item[0], at most k of them.
RECURSIVE ChainFrom(_, _, _)
ChainFrom(h, a, k) ==
    IF a = 0 \/ k = 0 THEN <<>>
    ELSE <<a>> \o ChainFrom(h, IF Len(h[a].items) = 0 THEN 0
                               ELSE PtrAddr(h[a].items[1]), k - 1)

\* The chain of bucket n of a kind's free list.
BucketChain(h, p, kind, n) == ChainFrom(h, p[kind].fl[n], Len(h) + 1)

\* The pool of a kind is sound: every chain holds pooled objects of the
\* kind, each once, NUM_FREE is the length of the chain, and every pooled
\* object of the kind is in the chain of its length.
PoolSound(h, p, kind) ==
    /\ \A n \in DOMAIN p[kind].fl :
         LET c == BucketChain(h, p, kind, n)
         IN  /\ p[kind].num_free[n] = Len(c)
             /\ \A i \in 1..Len(c) :
                  /\ h[c[i]].st = "pooled" /\ h[c[i]].kind = kind
                  /\ \A j \in 1..Len(c) : c[i] = c[j] => i = j
    /\ \A a \in 1..Len(h) :
         (h[a].st = "pooled" /\ h[a].kind = kind) =>
            /\ Len(h[a].items) \in DOMAIN p[kind].fl
            /\ \E i \in 1..Len(BucketChain(h, p, kind, Len(h[a].items))) :
                  BucketChain(h, p, kind, Len(h[a].items))[i] = a

\* C24: when each macro runs atomically, no constructor hands out an object
\* another thread holds, no pooled object is off its chain and NUM_FREE is
\* the chain's length; the interleaved steps of two threads on one bucket
\* do reach such states (C24_Witness).
C24_SerializedIsSafe ==
    ret.mode = "atomic" =>
        /\ ret.owned[1] \cap ret.owned[2] = {}
        /\ \A t \in Threads : \A o \in ret.owned[t] : heap[o].st = "live"
        /\ PoolSound(heap, pools, "Tuple")

\* With interleaved steps and both threads at rest: one object was handed to
\* both threads' constructors, a pooled object is on no chain, and NUM_FREE
\* is not the length of the chain.
C24_Witness ==
    /\ ret.mode = "interleaved"
    /\ \A t \in Threads : ret.th[t].pc = "idle"
    /\ ret.owned[1] \cap ret.owned[2] # {}
    /\ \E a \in 1..Len(heap) :
         /\ heap[a].st = "pooled"
         /\ \A i \in 1..Len(BucketChain(heap, pools, "Tuple", RaceSize)) :
              BucketChain(heap, pools, "Tuple", RaceSize)[i] # a
    /\ pools["Tuple"].num_free[RaceSize]
         # Len(BucketChain(heap, pools, "Tuple", RaceSize))
(***************************************************************************)
(* Recycling: constructors and destructors of every pooled kind.           *)
(***************************************************************************)
\* Containers ever allocated: a deallocated one keeps its address.
MaxRecycle == 2

\* Kinds whose struct has a cached_hash field, and kinds built from a
\* descriptor (for a NamedTuple: from the derived type, which holds one).
CachingKinds == {"Array", "Object", "SparseObject"}
DescKinds == {"Object", "SparseObject", "NamedTuple"}

\* The descriptors a constructor of the kind is called with (for a Tuple or
\* Array: none), as indexes in descs.
RecycleDescs(kind) ==
    CASE kind \in {"Object", "NamedTuple"} -> {1, 2}
      [] kind = "SparseObject" -> {3, 4}
      [] OTHER -> {0}

\* The sizes a Tuple or Array constructor is called with.
RecycleSizes == 0..2

\* The values the decoder stores in the slots.
RecycleElems == {PyInt(1), PyInt(2)}

\* No instance destroyed yet.
NoneGone == [o |-> 0, items |-> <<>>, desc |-> 0, cached_hash |-> MinusOne]

\* What the last call did.  gone is the instance the last destructor call
\* destroyed, as it was when the destructor was entered; it is kept up to
\* the constructor call that follows it.
RecycleRet == [op |-> "none", kind |-> "", size |-> 0, desc |-> 0, o |-> 0,
               reused |-> FALSE, gone |-> NoneGone]

\* Two record shapes and two input shapes, all of two fields.
InitRecycle ==
    /\ rev \in {"edgedb", "gel"}
    /\ base_hash = BaseHashSmall
    /\ descs = << EdgeRecordDesc_New(rev, <<"id", "name">>,
                                     ArgTuple(<<EDGE_POINTER_IS_IMPLICIT, 0>>),
                                     ArgNull).d,
                  EdgeRecordDesc_New(rev, <<"id", "title">>,
                                     ArgTuple(<<EDGE_POINTER_IS_IMPLICIT, 0>>),
                                     ArgNull).d,
                  EdgeInputShape_New(<<"a", "b">>).d,
                  EdgeInputShape_New(<<"c", "d">>).d >>
    /\ heap = <<>>
    /\ pools = EmptyPools
    /\ ret = RecycleRet

\* Edge<Kind>_New(desc) or Edge<Kind>_New(size): the container as the
\* constructor returns it, before the caller stores anything in it.
RecycleNew(kind, size, di) ==
    /\ \E r \in {CASE kind = "Tuple" -> EdgeTuple_New(heap, pools, size)
                  [] kind = "Array" -> EdgeArray_New(heap, pools, size)
                  [] kind = "Object" ->
                         EdgeObject_New(rev, heap, pools, descs, di)
                  [] kind = "SparseObject" ->
                         EdgeSparseObject_New(heap, pools, descs, di)
                  [] OTHER -> EdgeNamedTuple_New(heap, pools, descs, di)} :
           /\ r.err = "none"
           /\ heap' = r.heap
           /\ pools' = r.pools
           /\ ret' = [op |-> "new", kind |-> kind, size |-> size,
                      desc |-> di, o |-> r.o, reused |-> (r.o <= Len(heap)),
                      gone |-> IF ret.op = "dealloc" THEN ret.gone
                               ELSE NoneGone]
    /\ UNCHANGED <<rev, base_hash, descs>>

\* Edge<Kind>_SetItem for every slot of o, once, by the caller of the
\* constructor.
RecycleFill(o, values) ==
    /\ Len(heap[o].items) > 0
    /\ \A i \in 1..Len(heap[o].items) : heap[o].items[i] = PyNULL
    /\ heap' = SetItems(heap, o, values)
    /\ ret' = [RecycleRet EXCEPT !.op = "fill"]
    /\ UNCHANGED <<rev, base_hash, descs, pools>>

\* hash(o) for a kind that caches it, once the container is filled
RecycleHash(o) ==
    /\ \A i \in 1..Len(heap[o].items) : heap[o].items[i] # PyNULL
    /\ \E r \in {CASE heap[o].kind = "Object" -> object_hash(base_hash, heap, o)
                  [] heap[o].kind = "SparseObject" ->
                         sparse_object_hash(base_hash, heap, o)
                  [] OTHER -> array_hash(base_hash, heap, o)} :
           heap' = r.heap
    /\ ret' = [RecycleRet EXCEPT !.op = "hash"]
    /\ UNCHANGED <<rev, base_hash, descs, pools>>

\* The last reference to o goes away.
RecycleDealloc(o) ==
    /\ \E r \in {CASE heap[o].kind = "Tuple" -> tuple_dealloc(heap, pools, o)
                  [] heap[o].kind = "Array" -> array_dealloc(heap, pools, o)
                  [] heap[o].kind = "Object" -> object_dealloc(heap, pools, o)
                  [] heap[o].kind = "SparseObject" ->
                         sparse_object_dealloc(heap, pools, o)
                  [] OTHER -> namedtuple_dealloc(heap, pools, o)} :
           /\ heap' = r.heap
           /\ pools' = r.pools
    /\ ret' = [RecycleRet EXCEPT !.op = "dealloc",
                                 !.gone = [o |-> o, items |-> heap[o].items,
                                    desc |-> heap[o].desc,
                                    cached_hash |-> heap[o].cached_hash]]
    /\ UNCHANGED <<rev, base_hash, descs>>

LiveRecycled == {o \in 1..Len(heap) : heap[o].st = "live"}

NextRecycle ==
    \/ \E kind \in PooledKinds : \E di \in RecycleDescs(kind) :
         \E size \in (IF di = 0 THEN RecycleSizes ELSE {descs[di].size}) :
           RecycleNew(kind, size, di) /\ Len(heap') <= MaxRecycle
    \/ \E o \in LiveRecycled :
         \E values \in [1..Len(heap[o].items) -> RecycleElems] :
           RecycleFill(o, values)
    \/ \E o \in LiveRecycled :
         heap[o].kind \in CachingKinds /\ RecycleHash(o)
    \/ \E o \in LiveRecycled : RecycleDealloc(o)

SpecRecycle == InitRecycle /\ [][NextRecycle]_vars

\* C25: a container a constructor has just returned for size n, fresh or
\* taken from the pool, is live and of the requested kind, has n slots, all
\* of them empty, has its cached hash uncomputed when its kind caches one,
\* and carries the descriptor (for a NamedTuple: the type) this construction
\* asked for.
C25_RecyclingUnobservable ==
    ret.op = "new" =>
        /\ heap[ret.o].st = "live"
        /\ heap[ret.o].kind = ret.kind
        /\ Len(heap[ret.o].items) = ret.size
        /\ \A i \in 1..ret.size : heap[ret.o].items[i] = PyNULL
        /\ ret.kind \in CachingKinds => heap[ret.o].cached_hash = MinusOne
        /\ ret.kind \in DescKinds => heap[ret.o].desc = ret.desc

\* An Object of shape (id, name) was filled, hashed and destroyed after
\* another Object had been pooled beneath it (so its slot 0 held a chain
\* link); the constructor for shape (id, title) then returned its memory.
C25_Witness ==
    /\ ret.op = "new" /\ ret.reused /\ ret.kind = "Object"
    /\ ret.gone.o = ret.o
    /\ ret.gone.desc = 1 /\ ret.desc = 2
    /\ ret.gone.cached_hash # MinusOne
    /\ ret.gone.items = <<PyInt(1), PyInt(2)>>
    /\ pools["Object"].num_free[2] = 1

(***************************************************************************)
(* A destructor in steps.  EDGE_DEALLOC_WITH_FREELIST releases the slots   *)
(* from the last to the first with Py_CLEAR, and the release of a slot's   *)
(* last reference runs the element's own destructor before the loop goes   *)
(* on: tuple_dealloc again for a nested Tuple, any code at all for an      *)
(* element with a finalizer.  frames is the stack of the destructor calls  *)
(* in progress, [o, i]: the object and the number of slots still to be     *)
(* released.  An object whose destructor is in progress is "dying".        *)
(***************************************************************************)
\* An element whose finalizer builds a Tuple of n elements and keeps it.
PyFinalizer(n) == [t |-> "finalizer", v |-> n]

\* Py_DECREF(el) of the last reference to el, inside a destructor:
\* [heap, pools, frames, made], made the Tuple a finalizer built (0: none).
Py_DECREF_Last(h, p, frames, el) ==
    CASE el.t = "ptr" ->
             [heap |-> [h EXCEPT ![el.v].st = "dying"], pools |-> p,
              frames |-> Append(frames, [o |-> el.v,
                                         i |-> Len(h[el.v].items)]),
              made |-> 0]
      [] el.t = "finalizer" ->
             LET r == tuple_new(h, p, [k \in 1..el.v |-> PyInt(1)])
             IN  [heap |-> r.heap, pools |-> r.pools, frames |-> frames,
                  made |-> r.o]
      [] OTHER -> [heap |-> h, pools |-> p, frames |-> frames, made |-> 0]

\* A destructor that links the object into its bucket before it releases
\* the element of slot 0: the variant C26 rules out.
tuple_dealloc_step_LinkEarly(h, p, frames) ==
    LET f == frames[Len(frames)]
        rest == SubSeq(frames, 1, Len(frames) - 1)
    IN  IF f.i > 1
        THEN Py_DECREF_Last([h EXCEPT ![f.o].items[f.i] = PyNULL], p,
                            Append(rest, [f EXCEPT !.i = @ - 1]),
                            h[f.o].items[f.i])
        ELSE IF f.i = 1
        THEN LET r == tuple_dealloc(h, p, f.o)
             IN  Py_DECREF_Last(r.heap, r.pools,
                                Append(rest, [f EXCEPT !.i = 0]),
                                h[f.o].items[1])
        ELSE IF h[f.o].st = "dying"
        THEN LET r == tuple_dealloc(h, p, f.o)
             IN  [heap |-> r.heap, pools |-> r.pools, frames |-> rest,
                  made |-> 0]
        ELSE [heap |-> h, pools |-> p, frames |-> rest, made |-> 0]

\* tuple.c:82-92 with freelist.h:82-106, one step of the innermost
\* destructor call: Py_CLEAR of the next slot (the slot is NULL before the
\* element is released), or, when none is left, the link into the bucket or
\* tp_free, and the return.
tuple_dealloc_step(h, p, frames) ==
    LET f == frames[Len(frames)]
        rest == SubSeq(frames, 1, Len(frames) - 1)
    IN  IF f.i > 0
        THEN Py_DECREF_Last([h EXCEPT ![f.o].items[f.i] = PyNULL], p,
                            Append(rest, [f EXCEPT !.i = @ - 1]),
                            h[f.o].items[f.i])
        ELSE LET r == tuple_dealloc(h, p, f.o)
             IN  [heap |-> r.heap, pools |-> r.pools, frames |-> rest,
                  made |-> 0]

(***************************************************************************)
(* Nested Tuples built and destroyed by one thread.                        *)
(***************************************************************************)
\* Tuples ever allocated: a deallocated one keeps its address.
MaxNest == 3

\* The longest Tuple built.
MaxNestLen == 2

\* Live Tuples no slot refers to: the ones the program holds.
Roots ==
    {a \in 1..Len(heap) :
        /\ heap[a].st = "live"
        /\ \A b \in 1..Len(heap) :
             heap[b].st \in {"live", "dying"} =>
                 \A i \in 1..Len(heap[b].items) : heap[b].items[i] # PyPtr(a)}

\* The elements a new Tuple is given: a number, elements with finalizers,
\* and Tuples the program holds, which it hands over to the new Tuple.
NestElems == {PyInt(1), PyFinalizer(1), PyFinalizer(2)} \cup {PyPtr(a) : a \in Roots}

NestInputs ==
    {v \in UNION { [1..n -> NestElems] : n \in 0..MaxNestLen } :
        \A i, j \in 1..Len(v) : (i # j /\ v[i].t = "ptr") => v[i] # v[j]}

\* ret.made is the Tuple the last step's constructor call returned (0: no
\* such call), ret.reused whether it came from the pool; ret.order lists the
\* pooled Tuples, the most recently pooled last.
InitNest ==
    /\ rev = "edgedb"
    /\ base_hash = BaseHashSmall
    /\ descs = <<>>
    /\ heap = <<>>
    /\ pools = EmptyPools
    /\ ret = [op |-> "none", made |-> 0, reused |-> FALSE, frames |-> <<>>,
              order |-> <<>>]

\* The pooled Tuples in the order they were pooled, after a step to heap h2.
NestOrder(h2) ==
    LET kept == SelectSeq(ret.order, LAMBDA a : h2[a].st = "pooled")
        new == {a \in 1..Len(h2) :
                   /\ h2[a].st = "pooled"
                   /\ \A k \in 1..Len(ret.order) : ret.order[k] # a}
    IN  IF new = {} THEN kept ELSE Append(kept, CHOOSE a \in new : TRUE)

\* edgedb.Tuple(values), called by the program
NestNew(values) ==
    /\ ret.frames = <<>>
    /\ \E r \in {tuple_new(heap, pools, values)} :
           /\ r.err = "none"
           /\ heap' = r.heap
           /\ pools' = r.pools
           /\ ret' = [op |-> "new", made |-> r.o,
                      reused |-> (r.o <= Len(heap)), frames |-> <<>>,
                      order |-> NestOrder(r.heap)]
    /\ UNCHANGED <<rev, base_hash, descs>>

\* The program drops its reference to o: tuple_dealloc(o) is entered.
NestDealloc(o) ==
    /\ ret.frames = <<>>
    /\ heap' = [heap EXCEPT ![o].st = "dying"]
    /\ ret' = [op |-> "dealloc", made |-> 0, reused |-> FALSE,
               frames |-> <<[o |-> o, i |-> Len(heap[o].items)]>>,
               order |-> ret.order]
    /\ UNCHANGED <<rev, base_hash, descs, pools>>

\* The innermost destructor call goes on.
NestStep ==
    /\ ret.frames # <<>>
    /\ \E r \in {tuple_dealloc_step(heap, pools, ret.frames)} :
           /\ heap' = r.heap
           /\ pools' = r.pools
           /\ ret' = [op |-> "step", made |-> r.made,
                      reused |-> (r.made # 0 /\ r.made <= Len(heap)),
                      frames |-> r.frames,
                      order |-> NestOrder(r.heap)]
    /\ UNCHANGED <<rev, base_hash, descs>>

NextNest ==
    \/ \E values \in NestInputs : NestNew(values) /\ Len(heap') <= MaxNest
    \/ \E o \in Roots : NestDealloc(o)
    \/ NestStep /\ Len(heap') <= MaxNest

SpecNest == InitNest /\ [][NextNest]_vars

\* The objects whose destructor is in progress.
C26_Dying(frames) == {frames[k].o : k \in 1..Len(frames)}

\* The pooled Tuples of n slots, in the order they were pooled.
C26_PooledOfSize(order, h, n) ==
    SelectSeq(order, LAMBDA a : Len(h[a].items) = n)

\* C26: in every state of one thread building and destroying Tuples, nested
\* ones and ones whose elements' finalizers build Tuples included, every
\* bucket chain holds pooled Tuples only, each once, and none of them is
\* live or has its destructor in progress or has an unreleased slot; and a
\* constructor returns either a new object or the pooled Tuple of the
\* requested size that was pooled last, never a live or dying one.
C26_PoolDisjointAndLifo ==
    [][ /\ PoolSound(heap', pools', "Tuple")
        /\ \A a \in 1..Len(heap') :
             heap'[a].st = "pooled" =>
                 /\ a \notin C26_Dying(ret'.frames)
                 /\ \A i \in 2..Len(heap'[a].items) :
                      heap'[a].items[i] = PyNULL
        /\ \A a \in C26_Dying(ret'.frames) : heap'[a].st = "dying"
        /\ ret'.made # 0 =>
             LET n == Len(heap'[ret'.made].items)
                 was == C26_PooledOfSize(ret.order, heap, n)
             IN  /\ heap'[ret'.made].st = "live"
                 /\ IF was = <<>> \/ n = 0
                    THEN ret'.made = Len(heap) + 1
                    ELSE /\ ret'.made = was[Len(was)]
                         /\ heap[ret'.made].st = "pooled"
      ]_vars

\* The destructor of a Tuple released its slot, which entered the
\* destructor of the nested Tuple in it; that one released its slot, whose
\* element's finalizer built a Tuple of the same size and was given the
\* pooled one, while both destructors were still in progress.
C26_Witness ==
    /\ ret.op = "step" /\ ret.made # 0 /\ ret.reused
    /\ Len(ret.frames) = 2
    /\ heap[ret.frames[1].o].st = "dying" /\ heap[ret.frames[2].o].st = "dying"
    /\ Len(heap[ret.frames[2].o].items) = Len(heap[ret.made].items)
    /\ Len(heap[ret.frames[1].o].items) = Len(heap[ret.made].items)
    /\ pools["Tuple"].num_free[1] = 0

(***************************************************************************)
(* A bucket at its capacity.  The program has built one more Array of one  *)
(* element than the Array free list holds and has destroyed all of them    *)
(* but two: the bucket of length 1 is one short of its capacity and two    *)
(* such Arrays are live.                                                   *)
(***************************************************************************)
\* Containers allocated after that, and containers live at a time.
MaxFill == 1
MaxFillLive == 3

\* The Arrays of one element live at the start.
FillLive == 2

\* The Arrays pooled at the start.
FillPooled == EDGE_ARRAY_FREELIST_SIZE - 1

\* The lengths built: none, one, the longest a bucket exists for, and the
\* shortest none exists for.
FillSizes(kind) == {0, 1, FL_MAX_SAVE_SIZE(kind) - 1, FL_MAX_SAVE_SIZE(kind)}

FillKinds == {"Tuple", "Array"}

InitFill ==
    /\ rev = "edgedb"
    /\ base_hash = BaseHashSmall
    /\ descs = <<>>
    /\ heap = [a \in 1..(FillPooled + FillLive) |->
                 IF a <= FillPooled
                 THEN [kind |-> "Array", items |-> <<PyPtr(a - 1)>>,
                       desc |-> 0, cached_hash |-> MinusOne, st |-> "pooled"]
                 ELSE [kind |-> "Array", items |-> <<PyInt(1)>>,
                       desc |-> 0, cached_hash |-> MinusOne, st |-> "live"]]
    /\ pools = [EmptyPools EXCEPT !["Array"].fl[1] = FillPooled,
                                  !["Array"].num_free[1] = FillPooled]
    /\ ret = [op |-> "none", a |-> 0, full |-> FALSE]

\* edgedb.Tuple(values) or edgedb.Array(values) of size elements
FillNew(kind, size) ==
    /\ \E r \in {IF kind = "Tuple"
                 THEN tuple_new(heap, pools, [i \in 1..size |-> PyInt(1)])
                 ELSE array_new(heap, pools, [i \in 1..size |-> PyInt(1)])} :
           /\ r.err = "none"
           /\ heap' = r.heap
           /\ pools' = r.pools
           /\ ret' = [op |-> "new", a |-> r.o, full |-> FALSE]
    /\ UNCHANGED <<rev, base_hash, descs>>

\* The last reference to o goes away; full tells whether its bucket was at
\* capacity then.
FillDealloc(o) ==
    /\ \E r \in {IF heap[o].kind = "Tuple" THEN tuple_dealloc(heap, pools, o)
                 ELSE array_dealloc(heap, pools, o)} :
           /\ heap' = r.heap
           /\ pools' = r.pools
    /\ ret' = [op |-> "dealloc", a |-> o,
               full |-> /\ Len(heap[o].items) \in DOMAIN pools[heap[o].kind].fl
                        /\ pools[heap[o].kind].num_free[Len(heap[o].items)]
                             = FL_MAX_FREE_LIST(heap[o].kind)]
    /\ UNCHANGED <<rev, base_hash, descs>>

NextFill ==
    \/ \E kind \in FillKinds : \E size \in FillSizes(kind) :
         /\ FillNew(kind, size)
         /\ Len(heap') <= FillPooled + FillLive + MaxFill
         /\ Cardinality({o \in 1..Len(heap') : heap'[o].st = "live"})
               <= MaxFillLive
    \/ \E o \in 1..Len(heap) : heap[o].st = "live" /\ FillDealloc(o)

SpecFill == InitFill /\ [][NextFill]_vars

\* The first k objects linked from a through ob_item[0], fewer when the
\* chain ends before: ChainFrom computed by halving, so that the chain of a
\* full bucket can be followed.
RECURSIVE C27_Segment(_, _, _)
C27_Segment(h, a, k) ==
    IF a = 0 \/ k = 0 THEN <<>>
    ELSE IF k = 1 THEN <<a>>
    ELSE CHOOSE c \in
           { IF Len(l) < k \div 2 THEN l
             ELSE l \o C27_Segment(h, IF Len(h[l[Len(l)]].items) = 0 THEN 0
                                      ELSE PtrAddr(h[l[Len(l)]].items[1]),
                                   k - (k \div 2))
             : l \in {C27_Segment(h, a, k \div 2)} } : TRUE

\* The chain of bucket n of a kind's free list.
C27_Chain(h, p, kind, n) == C27_Segment(h, p[kind].fl[n], Len(h) + 1)

\* The objects of a chain.
C27_Members(c) == {c[i] : i \in 1..Len(c)}

\* The pool of a kind keeps its bounds in heap h and pools p.
C27_PoolBounded(h, p, kind) ==
    /\ \A a \in 1..Len(h) :
         (h[a].st = "pooled" /\ h[a].kind = kind) =>
            (Len(h[a].items) >= 1 /\ Len(h[a].items) < FL_MAX_SAVE_SIZE(kind))
    /\ p[kind].fl[0] = 0 /\ p[kind].num_free[0] = 0
    /\ \A n \in DOMAIN p[kind].fl :
         \E c \in {C27_Chain(h, p, kind, n)} :
            /\ \A i \in 1..Len(c) :
                 /\ Len(h[c[i]].items) = n
                 /\ h[c[i]].st = "pooled" /\ h[c[i]].kind = kind
            /\ p[kind].num_free[n] = Len(c)
            /\ Cardinality(C27_Members(c)) = Len(c)
            /\ C27_Members(c) =
                 {a \in 1..Len(h) : /\ h[a].st = "pooled" /\ h[a].kind = kind
                                    /\ Len(h[a].items) = n}
            /\ p[kind].num_free[n] >= 0
            /\ p[kind].num_free[n] <= FL_MAX_FREE_LIST(kind)

\* C27: in every state, for the Tuple and the Array pool, only objects of
\* length 1..MAXSAVE-1 are pooled and bucket 0 is empty, the chain of bucket
\* n holds exactly the pooled objects of length n, each once, NUM_FREE[n] is
\* its length and lies within 0..capacity; a constructor for length 0 or
\* for MAXSAVE and more allocates and leaves the pool alone; a destructor
\* frees the object and leaves the pool alone when its length is 0 or at
\* least MAXSAVE or its bucket is at capacity, and pools it otherwise.
C27_PoolInvariants ==
    /\ [](\A kind \in FillKinds : C27_PoolBounded(heap, pools, kind))
    /\ [][ /\ (/\ ret'.op = "new"
                /\ Len(heap'[ret'.a].items) \notin
                      1..(FL_MAX_SAVE_SIZE(heap'[ret'.a].kind) - 1)) =>
                   (ret'.a = Len(heap) + 1 /\ pools' = pools)
           /\ ret'.op = "dealloc" =>
                LET o == ret'.a
                    kind == heap[o].kind
                    len == Len(heap[o].items)
                IN  IF \/ len = 0 \/ len >= FL_MAX_SAVE_SIZE(kind)
                       \/ pools[kind].num_free[len] = FL_MAX_FREE_LIST(kind)
                    THEN heap'[o].st = "freed" /\ pools' = pools
                    ELSE /\ heap'[o].st = "pooled"
                         /\ pools'[kind].fl[len] = o
                         /\ pools'[kind].num_free[len]
                              = pools[kind].num_free[len] + 1
         ]_vars

\* An Array of one element was destroyed while its bucket held as many
\* objects as the free list allows: it was freed and the bucket still holds
\* that many.
C27_Witness ==
    /\ ret.op = "dealloc" /\ ret.full
    /\ heap[ret.a].kind = "Array" /\ Len(heap[ret.a].items) = 1
    /\ heap[ret.a].st = "freed"
    /\ pools["Array"].num_free[1] = EDGE_ARRAY_FREELIST_SIZE

(***************************************************************************)
(* Sets changed after they were hashed: S (address 1) and T (address 2)    *)
(* are created empty, then appended to, overwritten, hashed and compared   *)
(* in any order.                                                           *)
(***************************************************************************)
MaxStaleLen == 2

\* Two numbers and an unhashable element (a list).
StaleElems == {PyInt(1), PyInt(2), PyList(1)}

\* ret.first[o] is what the first successful hash(o) returned (-1: none
\* yet).
InitStale ==
    /\ rev = "edgedb"
    /\ base_hash \in BaseHashChoices
    /\ descs = <<>>
    /\ heap = EdgeSet_New(EdgeSet_New(<<>>, 0).heap, 0).heap
    /\ pools = EmptyPools
    /\ ret = [op |-> "none", a |-> 0, b |-> 0, h |-> MinusOne, val |-> "",
              first |-> <<MinusOne, MinusOne>>]

\* EdgeSet_AppendItem(o, el)
StaleAppend(o, el) ==
    /\ \E r \in {EdgeSet_AppendItem(heap, o, el)} :
           /\ r.err = "none"
           /\ heap' = r.heap
    /\ ret' = [ret EXCEPT !.op = "append", !.a = o, !.b = 0, !.h = MinusOne,
                          !.val = ""]
    /\ UNCHANGED <<rev, base_hash, descs, pools>>

\* EdgeSet_SetItem(o, pos, el)
StaleSetItem(o, pos, el) ==
    /\ \E r \in {EdgeSet_SetItem(heap, o, pos, el)} :
           /\ r.err = "none"
           /\ heap' = r.heap
    /\ ret' = [ret EXCEPT !.op = "set_item", !.a = o, !.b = 0, !.h = MinusOne,
                          !.val = ""]
    /\ UNCHANGED <<rev, base_hash, descs, pools>>

\* hash(o): -1 when it raised
StaleHash(o) ==
    /\ \E r \in {set_hash(base_hash, heap, o)} :
           /\ heap' = r.heap
           /\ ret' = [ret EXCEPT !.op = "hash", !.a = o, !.b = 0,
                                 !.h = r.hash, !.val = "",
                                 !.first[o] = IF @ = MinusOne THEN r.hash
                                              ELSE @]
    /\ UNCHANGED <<rev, base_hash, descs, pools>>

\* v == w
StaleCompare(v, w) ==
    /\ ret' = [ret EXCEPT !.op = "compare", !.a = v, !.b = w, !.h = MinusOne,
                          !.val = set_richcompare(heap, v, w, "EQ")]
    /\ UNCHANGED <<rev, base_hash, descs, heap, pools>>

NextStale ==
    \/ \E o \in Live("Set"), el \in StaleElems :
         Len(heap[o].items) < MaxStaleLen /\ StaleAppend(o, el)
    \/ \E o \in Live("Set"), pos \in 0..(MaxStaleLen - 1), el \in StaleElems :
         StaleSetItem(o, pos, el)
    \/ \E o \in Live("Set") : StaleHash(o)
    \/ \E v \in Live("Set"), w \in Live("Set") : v # w /\ StaleCompare(v, w)

SpecStale == InitStale /\ [][NextStale]_vars

\* C28: an append to a Set and the overwriting of one of its items leave
\* its stored hash as it is, and once a hash call on a Set has succeeded,
\* every later hash call on it succeeds and returns the same value, whatever
\* was appended or overwritten in between.
C28_HashSurvivesMutation ==
    [][ /\ ret'.op \in {"append", "set_item"} =>
             /\ heap'[ret'.a].cached_hash = heap[ret'.a].cached_hash
             /\ heap'[ret'.a].items # heap[ret'.a].items
                  \/ ret'.op = "set_item"
        /\ (ret'.op = "hash" /\ ret.first[ret'.a] # MinusOne) =>
             /\ ret'.h = ret.first[ret'.a]
             /\ heap'[ret'.a].cached_hash = ret.first[ret'.a]
      ]_vars

\* S was hashed while empty and then given 1 and 2; T was given 1 and 2 and
\* then hashed.  S == T has just answered True, the two hold the same
\* element sequence, and hash(S), which is still the hash of the empty Set,
\* differs from hash(T).
C28_Witness ==
    /\ ret.op = "compare" /\ ret.a = 1 /\ ret.b = 2 /\ ret.val = "True"
    /\ heap[1].items = <<PyInt(1), PyInt(2)>>
    /\ heap[2].items = heap[1].items
    /\ ret.first[1] = EdgeGeneric_HashWithBase(base_hash["Set"], <<>>)
    /\ heap[1].cached_hash = ret.first[1]
    /\ heap[2].cached_hash
         = EdgeGeneric_HashWithBase(base_hash["Set"], heap[2].items)
    /\ heap[1].cached_hash # heap[2].cached_hash

(***************************************************************************)
(* Equality and hashing of Objects and Links (edgedb revision).            *)
(***************************************************************************)
\* Links ever built.
MaxEqLinks == 2

\* EdgeLink_InitType: base_hash = _EdgeGeneric_HashString("edgedb.Link"),
\* in the process whose other seeds are bh.
LinkBaseHash(bh) ==
    IF bh = BaseHashSmall THEN <<2718, 4, 0, 0>>
    ELSE <<65535, 65535, 65535, 65535 - 32768>>

\* link.c:120-123: a computed -1 becomes -2
LinkHashRemap(x) == IF x = MinusOne THEN MinusTwo ELSE x

\* link.c:103-126: [hash, heap]; hashing the source and the target stores
\* their hashes in them.  s and t are what PyObject_Hash gives for the
\* source and then for the target.
link_hash(bh, h, o) ==
    CHOOSE r \in UNION {
        { IF s.hash = MinusOne THEN [hash |-> MinusOne, heap |-> s.heap]
          ELSE IF t.hash = MinusOne THEN [hash |-> MinusOne, heap |-> t.heap]
          ELSE [hash |-> LinkHashRemap(WXor(WXor(LinkBaseHash(bh), s.hash),
                                            t.hash)),
                heap |-> t.heap]
          : t \in {[hash |-> object_hash(bh, s.heap, PtrAddr(h[o].target)).hash,
                    heap |-> object_hash(bh, s.heap, PtrAddr(h[o].target)).heap]} }
        : s \in {[hash |-> object_hash(bh, h, PtrAddr(h[o].source)).hash,
                  heap |-> object_hash(bh, h, PtrAddr(h[o].source)).heap]} } : TRUE

\* The values of an Object of shape (id, name) or (id): ids and names are 1
\* or 2.
EqValues(di) == [1..(IF di = 1 THEN 2 ELSE 1) -> {PyInt(1), PyInt(2)}]

\* The Objects the decoder hands out: a descriptor and the values.
EqObjects ==
    UNION { {[di |-> di, values |-> v] : v \in EqValues(di)} : di \in 1..2 }

EqLinkNames == {"friends"}

\* Two Objects have been decoded: O1 (address 1), of shape (id, name) with
\* id 1 and name 1, and O2 (address 2), any of EqObjects.
InitEq ==
    /\ rev = "edgedb"
    /\ base_hash = BaseHashSmall
    /\ descs = << EdgeRecordDesc_New("edgedb", <<"id", "name">>,
                                     ArgTuple(<<EDGE_POINTER_IS_IMPLICIT, 0>>),
                                     ArgNull).d,
                  EdgeRecordDesc_New("edgedb", <<"id">>,
                                     ArgTuple(<<EDGE_POINTER_IS_IMPLICIT>>),
                                     ArgNull).d >>
    /\ pools = EmptyPools
    /\ \E x \in {[di |-> 1, values |-> <<PyInt(1), PyInt(1)>>]},
          y \in EqObjects :
         \E r1 \in {EdgeObject_New("edgedb", <<>>, EmptyPools, descs, x.di)} :
           \E r2 \in {EdgeObject_New("edgedb",
                                     SetItems(r1.heap, r1.o, x.values),
                                     EmptyPools, descs, y.di)} :
             heap = SetItems(r2.heap, r2.o, y.values)
    /\ ret = [op |-> "none", a |-> 0, b |-> 0, val |-> "", h |-> MinusOne]

\* EdgeLink_New(name, source, target)
EqLinkNew(name, source, target) ==
    /\ \E r \in {EdgeLink_New(heap, name, PyPtr(source), PyPtr(target))} :
           /\ r.err = "none"
           /\ heap' = r.heap
           /\ ret' = [op |-> "link_new", a |-> PtrAddr(r.val), b |-> 0,
                      val |-> "", h |-> MinusOne]
    /\ UNCHANGED <<rev, base_hash, descs, pools>>

\* hash(o) of an Object or a Link
EqHash(o) ==
    /\ \E r \in {IF heap[o].kind = "Object"
                 THEN [hash |-> object_hash(base_hash, heap, o).hash,
                       heap |-> object_hash(base_hash, heap, o).heap]
                 ELSE link_hash(base_hash, heap, o)} :
           /\ heap' = r.heap
           /\ ret' = [op |-> "hash", a |-> o, b |-> 0, val |-> "",
                      h |-> r.hash]
    /\ UNCHANGED <<rev, base_hash, descs, pools>>

\* v == w on two Objects or two Links
EqCompare(v, w) ==
    /\ heap[v].kind = heap[w].kind
    /\ ret' = [op |-> "compare", a |-> v, b |-> w,
               val |-> IF heap[v].kind = "Object"
                       THEN object_richcompare(heap, descs, v, w, "EQ")
                       ELSE link_richcompare(heap, descs, v, w, "EQ"),
               h |-> MinusOne]
    /\ UNCHANGED <<rev, base_hash, descs, heap, pools>>

NextEq ==
    \/ \E name \in EqLinkNames : \E source, target \in Live("Object") :
         EqLinkNew(name, source, target) /\ Len(heap') <= 2 + MaxEqLinks
    \/ \E o \in Live("Object") \cup Live("Link") : EqHash(o)
    \/ \E v, w \in Live("Object") \cup Live("Link") : v # w /\ EqCompare(v, w)

SpecEq == InitEq /\ [][NextEq]_vars

\* C29: any two Objects that compare equal have equal hashes, also when
\* they carry the same id and differ in another field or in shape, and any
\* two Links that compare equal have equal hashes.
C29_EqualImpliesEqualHash ==
    /\ \A v \in Live("Object"), w \in Live("Object") :
         object_richcompare(heap, descs, v, w, "EQ") = "True" =>
            object_hash(base_hash, heap, v).hash
              = object_hash(base_hash, heap, w).hash
    /\ \A v \in Live("Link"), w \in Live("Link") :
         link_richcompare(heap, descs, v, w, "EQ") = "True" =>
            link_hash(base_hash, heap, v).hash
              = link_hash(base_hash, heap, w).hash

\* Two Objects of shape (id, name) with id 1 and the names 1 and 2 were
\* hashed, to two different values, and have just compared equal.
C29_Witness ==
    /\ ret.op = "compare" /\ ret.val = "True"
    /\ heap[ret.a].kind = "Object" /\ heap[ret.b].kind = "Object"
    /\ heap[ret.a].items = <<PyInt(1), PyInt(1)>>
    /\ heap[ret.b].items = <<PyInt(1), PyInt(2)>>
    /\ heap[ret.a].cached_hash # MinusOne
    /\ heap[ret.b].cached_hash # MinusOne
    /\ heap[ret.a].cached_hash # heap[ret.b].cached_hash


=============================================================================
